---------------------------- MODULE Spec2Model ----------------------------
(***************************************************************************)
(* washedmcp: the background job manager (washedmcp/background.py), the    *)
(* asynchronous index pipeline it runs (washedmcp/async_indexer.py) and    *)
(* the foreground index command (washedmcp/mcp_server.py).                 *)
(*                                                                         *)
(* Everything runs on one asyncio event loop: a coroutine runs without     *)
(* interruption from one suspension to the next, so one action of this     *)
(* module is one such stretch.  asyncio.Queue.get on a non-empty queue,    *)
(* Queue.put on an unbounded queue and asyncio.Lock.acquire on a free lock *)
(* do not suspend.  Blocking calls are offloaded with run_in_executor: the *)
(* call runs in a pool thread and is not interrupted when the coroutine    *)
(* awaiting it is cancelled.                                               *)
(***************************************************************************)
EXTENDS Integers, Sequences, FiniteSets, TLC

\* ------------------------------------------------------------------ bounds
MaxJobs == 2            \* submit_job calls in one behaviour
MaxHistory == 1         \* BackgroundJobManager(max_history=...)
MaxFg == 1              \* foreground index commands in one behaviour
MaxFiles == 11          \* files a scan returns under SpecPipe
JobMaxFiles == 1        \* files a scan returns under Spec

\* ------------------------------------------------------- program constants
PARSE_BATCH_SIZE == 10  \* _parse_files_async(batch_size=10)
EMBED_BATCH_SIZE == 50  \* _embed_functions_async(batch_size=50)

None == 0               \* the queue's shutdown sentinel
NoRun == [pc |-> "none"]
NoRet == [op |-> "none"]
\* No scan, no embedding phase and no store followed step by step.
NoScan == [pc |-> "none"]
NoEmbed == [pc |-> "none"]
NoStores == <<>>
\* _indexed_project_path = None: no index command has named a project yet
NoProject == "None"

\* Nothing known yet of a direct run: no directory walked, no call failed.
NoLog == [walked |-> -1, nfiles |-> -1, pfail |-> FALSE, failed |-> "none",
          caller |-> "none"]

JobIds == 1..MaxJobs
FgIds == 1..MaxFg
FgOwner(f) == 0 - f

Terminal == {"complete", "error", "cancelled"}

\* JobInfo.is_terminal
is_terminal(job) == job.status \in Terminal

\* ------------------------------------------------ progress as a fraction
\* IndexProgress.progress is a float; the model keeps it exact as <<num, den>>.
Frac(a, b) == <<a, b>>
FracLeq(p, q) == p[1] * q[2] <= q[1] * p[2]
FracIsOne(p) == p[1] = p[2]
FracIsZero(p) == p[1] = 0

\* The store-mutating offloaded calls, and every offloaded call.
StoreOps == {"clear", "add", "relate"}
OffloadOps == {"scan", "parse", "embed", "init_db"} \cup StoreOps
\* The offloaded calls that touch state shared between runs (database.py's
\* module globals and the collection).
SharedOps == {"init_db"} \cup StoreOps
YieldPcs == {"parse_yield", "embed_yield"}

\* ------------------------------------------------------- the index pipeline
\* index_codebase_async: the IndexProgress of a run and its position.
\*   pc      the await the run is suspended at ("go": running, "ret": returned)
\*   exc     the exception travelling up from the phase code, if any
\*   snaps   the snapshots the progress callback accepted, in order
\*   ncalls  the offloaded calls issued so far
InitRun(owner, hascb) ==
  [owner |-> owner, hascb |-> hascb, pc |-> "go", exc |-> "none",
   result |-> "none", n |-> 0, i |-> 0, found |-> 0, eb |-> 0,
   status |-> "in_progress", phase |-> "scanning", progress |-> Frac(0, 1),
   snaps |-> <<>>, ncalls |-> 0, processed |-> 0, indexed |-> 0]

Live(r) == r.pc = "go" /\ r.exc = "none"

Snap(r) == [phase |-> r.phase, status |-> r.status, progress |-> r.progress]

\* progress_callback(progress): the job's callback raises CancelledError when the
\* job's cancellation flag is set (jc), else it copies the snapshot.
CallbackRaises(r, jc) == r.hascb /\ jc

Callback(r, jc) ==
  IF ~Live(r) \/ ~r.hascb THEN r
  ELSE IF CallbackRaises(r, jc) THEN [r EXCEPT !.exc = "cancelled"]
  ELSE [r EXCEPT !.snaps = Append(@, Snap(r))]

\* await loop.run_in_executor(None, op, ...): the run suspends on the call.
Offload(r, op) ==
  IF ~Live(r) THEN r ELSE [r EXCEPT !.pc = op, !.ncalls = @ + 1]

\* await asyncio.sleep(0)
Yield(r, pc) == IF ~Live(r) THEN r ELSE [r EXCEPT !.pc = pc]

Raise(r, exc) == IF ~Live(r) THEN r ELSE [r EXCEPT !.exc = exc]

Return(r, result, indexed) ==
  IF ~Live(r) THEN r
  ELSE [r EXCEPT !.pc = "ret", !.result = result, !.indexed = indexed]

\* _do_index: progress.status = "complete" ... return {"status": "success", ...}
CompleteProgress == Frac(1, 1)

Complete(r, jc, indexed) ==
  IF ~Live(r) THEN r
  ELSE Return(Callback([r EXCEPT !.status = "complete", !.phase = "complete",
                                 !.progress = CompleteProgress], jc),
              "success", indexed)

\* _compute_relations_async up to its offloaded call
RelBegin(r, jc) ==
  IF ~Live(r) THEN r
  ELSE Offload(Callback([r EXCEPT !.phase = "computing_relations",
                                  !.progress = Frac(9, 10)], jc), "relate")

\* The store phase announced under the phase name of the parser.
StoreBeginAsParsing(r, jc) ==
  IF ~Live(r) THEN r
  ELSE Offload(Callback([r EXCEPT !.phase = "parsing",
                                  !.progress = Frac(8, 10)], jc), "init_db")

\* _store_functions_async up to its first offloaded call
StoreBegin(r, jc) ==
  IF ~Live(r) THEN r
  ELSE Offload(Callback([r EXCEPT !.phase = "storing",
                                  !.progress = Frac(8, 10)], jc), "init_db")

Min(a, b) == IF a <= b THEN a ELSE b

\* progress of the embedding batch that ends at entity batch_end of total
EmbedProgress(batch_end, total) == Frac(3 * total + 5 * batch_end, 10 * total)

\* _embed_functions_async: one turn of `for i in range(0, total, batch_size)`,
\* r.eb being i; past the last batch the function returns and _do_index goes on
\* to the store phase.
EmbedIter(r, jc) ==
  IF ~Live(r) THEN r
  ELSE IF r.eb < r.found
    THEN Offload(Callback([r EXCEPT !.progress =
                   EmbedProgress(Min(r.eb + EMBED_BATCH_SIZE, r.found), r.found)],
                          jc), "embed")
    ELSE StoreBegin(r, jc)

EmbedBegin(r, jc) ==
  IF ~Live(r) THEN r
  ELSE EmbedIter([r EXCEPT !.phase = "embedding", !.eb = 0], jc)

\* The parser's progress without the division by the number of files.
ParseProgressUnscaled(i, n) == Frac(3 * i, 10)

\* progress after file number i (1-based) of n was taken up by the parser
ParseProgress(i, n) == Frac(3 * i, 10 * n)

\* _parse_files_async: one turn of `for i, filepath in enumerate(files)`; past
\* the last file the final callback, the return, and _do_index's next step.
ParseIter(r, jc) ==
  IF ~Live(r) THEN r
  ELSE IF r.i < r.n
    THEN Offload([r EXCEPT !.processed = r.i + 1,
                           !.progress = ParseProgress(r.i + 1, r.n)], "parse")
    ELSE LET r1 == Callback(r, jc) IN
         IF r1.found = 0 THEN Complete(r1, jc, 0) ELSE EmbedBegin(r1, jc)

ParseBegin(r, jc) ==
  IF ~Live(r) THEN r
  ELSE ParseIter([r EXCEPT !.phase = "parsing", !.status = "in_progress",
                           !.i = 0], jc)

\* A parser failure ending the run instead of being logged.
ParseResultRaises(r, out) ==
  IF out.k = "funcs" THEN [r EXCEPT !.found = @ + out.n, !.i = @ + 1]
  ELSE Raise(r, "error")

\* _parse_files_async: the try around extract_functions.  The entities of the
\* file are added to all_functions; an exception is logged and the loop goes on.
ParseResult(r, out) ==
  IF out.k = "funcs" THEN [r EXCEPT !.found = @ + out.n, !.i = @ + 1]
  ELSE [r EXCEPT !.i = @ + 1]

\* The outcome of the call or sleep a run is suspended at:
\*   [k |-> "ok"],  [k |-> "fail"] (the call raised),
\*   [k |-> "files", n |-> ..] for a scan,  [k |-> "funcs", n |-> ..] for a parse.
\* The code after the await, up to the next suspension or the end of the try body.
AfterAwait(r, out, jc) ==
  LET g == [r EXCEPT !.pc = "go"] IN
  CASE r.pc = "scan" ->
         IF out.k = "fail" THEN Raise(g, "error")
         ELSE LET r1 == Callback([g EXCEPT !.n = out.n, !.phase = "scanning"], jc)
              IN IF out.n = 0 THEN Complete(r1, jc, 0) ELSE ParseBegin(r1, jc)
    [] r.pc = "parse" ->
         LET r1 == ParseResult(g, out)
         IN IF r1.i % PARSE_BATCH_SIZE = 0
              THEN Yield(Callback(r1, jc), "parse_yield")
              ELSE ParseIter(r1, jc)
    [] r.pc = "parse_yield" -> ParseIter(g, jc)
    [] r.pc = "embed" ->
         IF out.k = "fail" THEN Raise(g, "error") ELSE Yield(g, "embed_yield")
    [] r.pc = "embed_yield" ->
         EmbedIter([g EXCEPT !.eb = @ + EMBED_BATCH_SIZE], jc)
    [] r.pc = "init_db" ->
         IF out.k = "fail" THEN Raise(g, "error") ELSE Offload(g, "clear")
    [] r.pc = "clear" ->
         IF out.k = "fail" THEN Raise(g, "error")
         ELSE Offload(Callback(g, jc), "add")
    [] r.pc = "add" ->
         IF out.k = "fail" THEN Raise(g, "error")
         ELSE RelBegin([g EXCEPT !.progress = Frac(9, 10)], jc)
    [] r.pc = "relate" ->
         IF out.k = "fail" THEN Raise(g, "error")
         ELSE Complete([g EXCEPT !.progress = Frac(1, 1)], jc, g.found)

\* _do_index's handlers.  `except asyncio.CancelledError`: mark the progress
\* cancelled, tell the callback, re-raise.  `except Exception`: mark it error,
\* tell the callback, return the error result; a CancelledError raised by the
\* callback inside a handler leaves _do_index as it is.
Settle(r, jc) ==
  IF r.exc = "cancelled"
    THEN LET h == [r EXCEPT !.status = "cancelled", !.phase = "cancelled",
                            !.exc = "none", !.pc = "go"]
         IN [Callback(h, jc) EXCEPT !.pc = "ret", !.exc = "none",
                                    !.result = "cancelled"]
  ELSE IF r.exc = "error"
    THEN LET h == [r EXCEPT !.status = "error", !.phase = "error",
                            !.exc = "none", !.pc = "go"]
             c == Callback(h, jc)
         IN IF c.exc = "cancelled"
              THEN [c EXCEPT !.pc = "ret", !.exc = "none", !.result = "cancelled"]
              ELSE [c EXCEPT !.pc = "ret", !.result = "error"]
  ELSE r

\* The run resumes from its await with the outcome `out`.
PipeResume(r, out, jc) == Settle(AfterAwait(r, out, jc), jc)

\* The run's task was cancelled: CancelledError is raised at its await.
PipeCancel(r, jc) == Settle([r EXCEPT !.pc = "go", !.exc = "cancelled"], jc)

\* A cancelled run whose offloaded call stops with it.
InFlightInterrupted(owner, r) == {}

\* loop.run_in_executor(None, call): cancelling the run that awaits the call
\* does not stop the thread that executes it.  The calls on shared state that
\* the cancelled run r leaves executing.
InFlight(owner, r) ==
  IF r.pc \in SharedOps
    THEN {[owner |-> owner, op |-> r.pc, n |-> r.found]}
    ELSE {}

\* index_codebase_async up to its first await: the path checks return an error
\* result at once; else _do_index starts the scan.
PipeStart(owner, hascb, path_ok) ==
  IF ~path_ok
    THEN [InitRun(owner, hascb) EXCEPT !.pc = "ret", !.result = "error"]
    ELSE Offload(InitRun(owner, hascb), "scan")


\* ------------------------------------------------------ the job manager
VARIABLES
  max_history,    \* _max_history, as the manager was constructed
  jobs,           \* every JobInfo created so far, by job id
  dict,           \* the ids that are keys of BackgroundJobManager._jobs
  queue,          \* _job_queue: job ids and the None sentinel
  started,        \* _started
  running_count,  \* _running_count
  worker,         \* _worker_task: where _worker_loop is suspended
  run,            \* the pipeline run of the job the worker is executing
  clock,          \* the next value time.time() returns
  shut,           \* where shutdown() is suspended
  fg,             \* the foreground index commands (_index_foreground)
  orphans,        \* offloaded calls on shared state still executing in their
                  \* thread after their run was cancelled
  store,          \* the collection: its entities are 1..store
  ret,            \* the cancel_job call of the last step and what it returned
  prun,           \* a pipeline run called directly, with a progress sink
  plog,           \* what the calls of that run did, and how its caller ended it
  srun,           \* a run of index_codebase, the synchronous pipeline
  coll,           \* the collection's entities, in the order collection.get() lists them
  dbret,          \* the database call of the last step and what it returned
  indexed_project_path,  \* mcp_server._indexed_project_path
  scan,           \* _scan_sync: the walk of a scan in its pool thread
  emb,            \* _embed_functions_async: the entities and the calls of embed_batch
  persist_path,   \* the store database._collection belongs to, as init_db left it
  stores          \* the number of entities of each store

\* The state of the entry points that are called outside the job manager.
direct == <<plog, srun, coll, dbret>>

\* The state of the command handlers of the server.
server == <<indexed_project_path>>

\* The state of the phases and of database.py's globals, where a specification
\* follows them step by step.
detail == <<scan, emb, persist_path, stores>>

vars == <<max_history, jobs, dict, queue, started, running_count, worker, run, clock, shut,
          fg, orphans, store, ret, prun, plog, srun, coll, dbret,
          indexed_project_path, scan, emb, persist_path, stores>>

\* JobInfo(job_id, job_type, result=params): params.path passes the pipeline's
\* path checks or not.
\* trail: the values job.status has held, in order (a history of the field).
\* start_no: the job is the start_no-th job that _execute_job set running, 0
\* while it has not been started (a history of the manager).
NewJob(job_type, path_ok) ==
  [job_type |-> job_type, path_ok |-> path_ok, status |-> "pending",
   error |-> "none", cancelled |-> FALSE, task |-> FALSE, completed_at |-> 0,
   trail |-> <<"pending">>, start_no |-> 0]

\* job.status = s
SetStatus(job, s) ==
  [job EXCEPT !.status = s,
              !.trail = IF s = job.status THEN @ ELSE Append(@, s)]

\* The worker's part of the manager, threaded through one uninterrupted stretch
\* of _worker_loop.
WorkerView ==
  [max_history |-> max_history,
   jobs |-> jobs, dict |-> dict, queue |-> queue, clock |-> clock,
   running_count |-> running_count, worker |-> worker, run |-> run,
   orphans |-> orphans]

\* _cleanup_history: with more than max_history terminal jobs, sort them by
\* completed_at (a stable sort, so ties keep the dict's insertion order) and
\* delete completed_jobs[:-max_history].
Older(js, a, b) ==
  \/ js[a].completed_at < js[b].completed_at
  \/ js[a].completed_at = js[b].completed_at /\ a < b

HistoryToRemove(js, d, limit) ==
  LET done == {j \in d : is_terminal(js[j])}
      keep == IF limit = 0 THEN Cardinality(done) ELSE limit
  IN IF Cardinality(done) > limit
       THEN {j \in done : Cardinality({k \in done : Older(js, j, k)}) >= keep}
       ELSE {}

cleanup_history(m) ==
  [m EXCEPT !.dict = @ \ HistoryToRemove(m.jobs, m.dict, m.max_history)]

\* Without the cancellation cases: anything but success is a failure.
RunIndexJobDoneNoCancel(job, result) ==
  IF result = "success"
    THEN SetStatus(job, "complete")
  ELSE [SetStatus(job, "error") EXCEPT !.error = "pipeline"]

\* Without the final else: a failed pipeline leaves the job's status as it is.
RunIndexJobDoneNoElse(job, result) ==
  IF result = "cancelled" \/ job.cancelled
    THEN [SetStatus(job, "cancelled") EXCEPT !.error = "cancelled"]
  ELSE IF result = "success"
    THEN SetStatus(job, "complete")
  ELSE job

\* _run_index_job after index_codebase_async returned or raised, and
\* _execute_job's `except asyncio.CancelledError`.
RunIndexJobDone(job, result) ==
  IF result = "cancelled" \/ job.cancelled
    THEN [SetStatus(job, "cancelled") EXCEPT !.error = "cancelled"]
  ELSE IF result = "success"
    THEN SetStatus(job, "complete")
  ELSE [SetStatus(job, "error") EXCEPT !.error = "pipeline"]

\* The failure recorded without its message.
UnknownJobTypeNoMessage(job) == SetStatus(job, "error")

\* _execute_job's `except Exception` for raise ValueError("Unknown job type")
UnknownJobType(job) == [SetStatus(job, "error") EXCEPT !.error = "unknown_type"]

RECURSIVE worker_loop(_)

\* _execute_job's finally, then _worker_loop's task_done() and its next turn.
FinishJob(m, id, job) ==
  worker_loop(cleanup_history(
    [m EXCEPT !.jobs[id] = [job EXCEPT !.completed_at = m.clock],
              !.clock = @ + 1,
              !.running_count = @ - 1,
              !.run = NoRun,
              !.worker = [pc |-> "get", job |-> 0, cancel |-> FALSE]]))

\* _execute_job up to the pipeline's first await, or to its end when the job
\* ends without suspending.
execute_job(m, id) ==
  LET job == [SetStatus(m.jobs[id], "running") EXCEPT
                !.start_no = 1 + Cardinality({j \in 1..Len(m.jobs) :
                                                m.jobs[j].start_no > 0})]
      m1 == [m EXCEPT !.running_count = @ + 1]
  IN IF job.job_type = "index_codebase"
       THEN LET j1 == [job EXCEPT !.task = TRUE]
                r == PipeStart(id, TRUE, j1.path_ok)
            IN IF r.pc = "ret"
                 THEN FinishJob(m1, id, RunIndexJobDone(j1, r.result))
                 ELSE [m1 EXCEPT !.jobs[id] = j1, !.run = r,
                                 !.worker = [pc |-> "job", job |-> id,
                                             cancel |-> FALSE]]
       ELSE FinishJob(m1, id, UnknownJobType(job))

\* Without the check that the job is still in _jobs.
SkipJobKnownOnly(m, id) == id \in m.dict /\ m.jobs[id].cancelled

\* Without the check of the job's cancellation flag.
SkipJobNoFlag(m, id) == id \notin m.dict

\* The worker skips an id whose job is gone from _jobs or is flagged cancelled.
SkipJob(m, id) == id \notin m.dict \/ m.jobs[id].cancelled

\* _worker_loop from `job_id = await self._job_queue.get()`.
worker_loop(m) ==
  IF m.queue = <<>>
    THEN [m EXCEPT !.worker = [pc |-> "get", job |-> 0, cancel |-> FALSE]]
  ELSE LET id == Head(m.queue)
           m1 == [m EXCEPT !.queue = Tail(@)]
       IN IF id = None
            THEN [m1 EXCEPT !.worker = [pc |-> "done", job |-> 0, cancel |-> FALSE]]
          ELSE IF SkipJob(m1, id) THEN worker_loop(m1)
          ELSE execute_job(m1, id)

\* The worker resumes inside the pipeline of its job.  With a cancellation
\* requested CancelledError is raised at the await and the offloaded call, if one
\* is in flight, goes on in its thread.
WorkerResumed(m, out) ==
  LET id == m.worker.job
      job == m.jobs[id]
      r == IF m.worker.cancel THEN PipeCancel(m.run, job.cancelled)
           ELSE PipeResume(m.run, out, job.cancelled)
      m1 == IF m.worker.cancel
              THEN [m EXCEPT !.orphans = @ \cup InFlight(id, m.run)]
              ELSE m
  IN IF r.pc = "ret"
       THEN FinishJob(m1, id, RunIndexJobDone(job, r.result))
       ELSE [m1 EXCEPT !.run = r]

Install(m) ==
  /\ jobs' = m.jobs
  /\ dict' = m.dict
  /\ queue' = m.queue
  /\ clock' = m.clock
  /\ running_count' = m.running_count
  /\ worker' = m.worker
  /\ run' = m.run
  /\ orphans' = m.orphans

\* What an offloaded call does to the collection when it completes.
StoreAfter(st, op, out, n) ==
  IF out.k = "fail" THEN st
  ELSE CASE op = "clear" -> 0
         [] op = "add" -> IF n > st THEN n ELSE st
         [] OTHER -> st

\* _scan_sync over a directory in which os.walk yields `walked` directories (none
\* when it cannot list the root) holding n files to index; `raises` is whether
\* asyncio.current_task() raises in the thread that runs _scan_sync.
ScanSync(walked, n, raises) ==
  IF walked > 0 /\ raises
    THEN [k |-> "fail", n |-> n, walked |-> walked]
    ELSE [k |-> "files", n |-> n, walked |-> walked]

\* Under Spec a parsed file holds no entity or one.
FuncCounts == {0, 1}

\* The outcomes the call or sleep at pc can have.  A scan raises or returns its
\* file list: _scan_sync runs in a pool thread, where its per-directory check
\* asyncio.current_task() raises RuntimeError (no running event loop), so the walk
\* of a directory it can read raises; the runs in which the check passes and the
\* scan returns files are kept so that the phases after the scan are covered.  extract_functions raising is
\* caught by _parse_files_async and counts as no entities.
Outcomes(pc, maxFiles, counts) ==
  CASE pc = "scan" ->
         {ScanSync(1, n, raises) : n \in 0..maxFiles, raises \in BOOLEAN}
           \cup {ScanSync(0, 0, TRUE)}
    [] pc = "parse" -> {[k |-> "fail"]} \cup {[k |-> "funcs", n |-> n] : n \in counts}
    [] pc \in YieldPcs -> {[k |-> "ok"]}
    [] OTHER -> {[k |-> "ok"], [k |-> "fail"]}


\* ----------------------------------------------------------------- actions
MaxShutdowns == 1       \* shutdown() calls in one behaviour

IdleWorker == [pc |-> "get", job |-> 0, cancel |-> FALSE]

Init ==
  /\ max_history = MaxHistory
  /\ jobs = <<>>
  /\ dict = {}
  /\ queue = <<>>
  /\ started = FALSE
  /\ running_count = 0
  /\ worker = [pc |-> "none", job |-> 0, cancel |-> FALSE]
  /\ run = NoRun
  /\ clock = 1
  /\ shut = [pc |-> "idle", calls |-> 0]
  /\ fg = [f \in FgIds |-> [state |-> "idle", run |-> NoRun, outcome |-> "none"]]
  /\ orphans = {}
  /\ store = 0
  /\ ret = NoRet
  /\ prun = NoRun
  /\ plog = NoLog
  /\ srun = NoRun
  /\ coll = <<>>
  /\ dbret = NoRet
  /\ indexed_project_path = NoProject
  /\ scan = NoScan
  /\ emb = NoEmbed
  /\ persist_path = None
  /\ stores = NoStores

\* The variables of the job manager and of the commands, the collection and
\* the calls left in flight, and their values in a process that has submitted
\* no job and taken no command.
jobstate == <<max_history, jobs, dict, queue, started, running_count, worker, run,
              clock, shut, fg, orphans, store, ret>>

JobsIdle ==
  /\ max_history = MaxHistory
  /\ jobs = <<>>
  /\ dict = {}
  /\ queue = <<>>
  /\ started = FALSE
  /\ running_count = 0
  /\ worker = [pc |-> "none", job |-> 0, cancel |-> FALSE]
  /\ run = NoRun
  /\ clock = 1
  /\ shut = [pc |-> "idle", calls |-> 0]
  /\ fg = [f \in FgIds |-> [state |-> "idle", run |-> NoRun, outcome |-> "none"]]
  /\ orphans = {}
  /\ store = 0
  /\ ret = NoRet

\* The new job left out of _jobs.
NotRegistered(d, id) == d

\* submit_job: self._jobs[job_id] = job
Registered(d, id) == d \cup {id}

\* The item put at the head of the queue.
queue_put_front(q, item) == <<item>> \o q

\* await self._job_queue.put(item), the queue being unbounded
queue_put(q, item) == Append(q, item)

\* submit_job(job_type, params): _ensure_started (a new queue and a new worker
\* task when the manager is not started), a new JobInfo under a fresh id, the id
\* put on the queue.  Nothing in it suspends.
Submitted(job_type, path_ok) ==
  /\ Len(jobs) < MaxJobs
  /\ LET id == Len(jobs) + 1 IN
     /\ jobs' = Append(jobs, NewJob(job_type, path_ok))
     /\ dict' = Registered(dict, id)
     /\ queue' = queue_put(IF started THEN queue ELSE <<>>, id)
     /\ worker' = IF started THEN worker ELSE IdleWorker
     /\ started' = TRUE

SubmitJob(job_type, path_ok) ==
  /\ Submitted(job_type, path_ok)
  /\ ret' = NoRet
  /\ UNCHANGED <<server, detail, max_history, direct, prun, running_count, run, clock, shut, fg, orphans, store>>

\* cancel_job setting the flag and the status only, the task never cancelled.
CancelNotRequested(job, w) == FALSE

\* cancel_job: `if job._task and not job._task.done(): job._task.cancel()`.
\* job._task is asyncio.current_task() of _run_index_job, which is the worker
\* task, _execute_job being awaited by _worker_loop.
CancelRequested(job, w) == job.task /\ w.pc # "done"

\* cancel_job past its two early returns
Cancelled(job, now) ==
  [SetStatus(job, "cancelled") EXCEPT !.cancelled = TRUE, !.error = "cancelled",
                                      !.completed_at = now]

\* get_job_status(job_id)["status"], "None" for an id that is not in _jobs
get_job_status(js, d, id) == IF id \in d THEN js[id].status ELSE "None"

\* Without the early return for a terminal job.
cancel_job_returns_known(js, d, id) == id \in d

\* cancel_job's return value
cancel_job_returns(js, d, id) == id \in d /\ ~is_terminal(js[id])

CancelJob(id) ==
  /\ ret' = [op |-> "cancel_job", id |-> id,
             val |-> cancel_job_returns(jobs, dict, id)]
  /\ IF cancel_job_returns(jobs, dict, id)
       THEN /\ jobs' = [jobs EXCEPT ![id] = Cancelled(@, clock)]
            /\ clock' = clock + 1
            /\ worker' = IF CancelRequested(jobs[id], worker)
                           THEN [worker EXCEPT !.cancel = TRUE] ELSE worker
       ELSE UNCHANGED <<jobs, clock, worker>>
  /\ UNCHANGED <<server, detail, max_history, direct, prun, dict, queue, started, running_count, run, shut, fg, orphans, store>>

\* shutdown's `for job in self._jobs.values(): if not job.is_terminal():
\* await self.cancel_job(job.job_id)`, in the dict's insertion order.
RECURSIVE CancelAll(_, _, _)
CancelAll(m, d, id) ==
  IF id > Len(m.jobs) THEN m
  ELSE IF id \in d /\ ~is_terminal(m.jobs[id])
    THEN CancelAll([m EXCEPT !.jobs[id] = Cancelled(@, m.clock),
                             !.clock = @ + 1,
                             !.worker = IF CancelRequested(m.jobs[id], m.worker)
                                          THEN [@ EXCEPT !.cancel = TRUE] ELSE @],
                   d, id + 1)
    ELSE CancelAll(m, d, id + 1)

\* shutdown() up to `await asyncio.wait_for(self._worker_task, timeout=5.0)`;
\* with the worker task already done the wait returns at once.  One shutdown at a
\* time.  After the None is queued the worker can always run and end its loop, so
\* the 5 s timeout is not taken.
ShutdownBegin ==
  /\ shut.pc = "idle"
  /\ shut.calls < MaxShutdowns
  /\ worker.pc # "none"
  /\ LET m == CancelAll(WorkerView, dict, 1) IN
     /\ jobs' = m.jobs
     /\ clock' = m.clock
     /\ worker' = m.worker
  /\ queue' = queue_put(queue, None)
  /\ IF worker.pc = "done"
       THEN /\ started' = FALSE
            /\ shut' = [shut EXCEPT !.calls = @ + 1]
       ELSE /\ started' = started
            /\ shut' = [pc |-> "waiting", calls |-> shut.calls + 1]
  /\ ret' = NoRet
  /\ UNCHANGED <<server, detail, max_history, direct, prun, dict, running_count, run, fg, orphans, store>>

\* shutdown() after the wait: self._started = False
ShutdownEnd ==
  /\ shut.pc = "waiting"
  /\ worker.pc = "done"
  /\ shut' = [shut EXCEPT !.pc = "idle"]
  /\ started' = FALSE
  /\ ret' = NoRet
  /\ UNCHANGED <<server, detail, max_history, direct, prun, jobs, dict, queue, running_count, worker, run, clock, fg,
                 orphans, store>>

\* The worker wakes in `await self._job_queue.get()`.
WorkerWake ==
  /\ worker.pc = "get"
  /\ queue # <<>> \/ worker.cancel
  /\ IF worker.cancel
       THEN /\ worker' = [pc |-> "done", job |-> 0, cancel |-> FALSE]
            /\ UNCHANGED <<server, detail, max_history, direct, prun, jobs, dict, queue, clock, running_count, run, orphans>>
       ELSE Install(worker_loop(WorkerView))
  /\ ret' = NoRet
  /\ UNCHANGED <<server, detail, max_history, direct, prun, started, shut, fg, store>>

\* The worker wakes at the await its job's pipeline is suspended at.
WorkerResume(maxFiles, counts) ==
  /\ worker.pc = "job"
  /\ \E out \in Outcomes(run.pc, maxFiles, counts) :
       /\ store' = IF ~worker.cancel /\ run.pc \in OffloadOps
                     THEN StoreAfter(store, run.pc, out, run.found) ELSE store
       /\ Install(WorkerResumed(WorkerView, out))
  /\ ret' = NoRet
  /\ UNCHANGED <<server, detail, max_history, direct, prun, started, shut, fg>>

\* An offloaded call whose run was cancelled completes in its thread.
OrphanDone ==
  /\ \E o \in orphans, out \in {[k |-> "ok"], [k |-> "fail"]} :
       /\ orphans' = orphans \ {o}
       /\ store' = StoreAfter(store, o.op, out, o.n)
  /\ ret' = NoRet
  /\ UNCHANGED <<server, detail, max_history, direct, prun, jobs, dict, queue, started, running_count, worker, run, clock,
                 shut, fg>>

\* _index_foreground: asyncio.wait_for(index_codebase_async(path), timeout), no
\* progress callback.
FgDone(r, outcome) == [state |-> "done", run |-> r, outcome |-> outcome]

\* The paths a command may name: nothing, a directory, another directory, a file,
\* and a path that names nothing in the file system.
Paths == {"", "proj", "proj2", "a.py", "nowhere"}

\* os.path.exists and os.path.isdir of a path
exists(path) == path \in {"proj", "proj2", "a.py"}
isdir(path) == path \in {"proj", "proj2"}

\* os.path.abspath: the empty path is the working directory
abspath(path) == IF path = "" THEN "/cwd" ELSE "/cwd/" \o path

\* index_codebase_async before _do_index: sanitize_path, exists, isdir and
\* validate_persist_path, which raises when target_ok is false (the directory
\* of the store cannot be created).  "ok" when the request is accepted, else the
\* error of the result.
path_checks(path, target_ok) ==
  IF path = "" THEN "Invalid path"
  ELSE IF ~exists(path) THEN "Path does not exist"
  ELSE IF ~isdir(path) THEN "Path is not a directory"
  ELSE IF ~target_ok THEN "Invalid persist path"
  ELSE "ok"

\* call_tool("index_codebase", background=False): "path required" for an empty
\* path; else _index_foreground records the project and calls the pipeline,
\* which runs up to its first await.
FgStart(f, path, target_ok) ==
  /\ fg[f].state = "idle"
  /\ IF path = ""
       THEN /\ fg' = [fg EXCEPT ![f] = FgDone(NoRun, "error")]
            /\ UNCHANGED server
       ELSE LET r == PipeStart(FgOwner(f), FALSE,
                               path_checks(path, target_ok) = "ok") IN
            /\ indexed_project_path' = abspath(path)
            /\ fg' = [fg EXCEPT ![f] = IF r.pc = "ret" THEN FgDone(r, r.result)
                                        ELSE [state |-> "running", run |-> r,
                                              outcome |-> "none"]]
  /\ ret' = NoRet
  /\ UNCHANGED <<detail, max_history, direct, prun, jobs, dict, queue, started,
                 running_count, worker, run, clock, shut, orphans, store>>

FgResume(f, maxFiles, counts) ==
  /\ fg[f].state = "running"
  /\ \E out \in Outcomes(fg[f].run.pc, maxFiles, counts) :
       LET r == PipeResume(fg[f].run, out, FALSE) IN
       /\ store' = IF fg[f].run.pc \in OffloadOps
                     THEN StoreAfter(store, fg[f].run.pc, out, fg[f].run.found)
                     ELSE store
       /\ fg' = [fg EXCEPT ![f] = IF r.pc = "ret" THEN FgDone(r, r.result)
                                   ELSE [@ EXCEPT !.run = r]]
  /\ ret' = NoRet
  /\ UNCHANGED <<server, detail, max_history, direct, prun, jobs, dict, queue, started, running_count, worker, run, clock,
                 shut, orphans>>

\* The timeout of wait_for elapses: the pipeline's task is cancelled,
\* CancelledError is raised at its await, and wait_for raises TimeoutError.
FgTimeout(f) ==
  /\ fg[f].state = "running"
  /\ fg' = [fg EXCEPT ![f] = FgDone(PipeCancel(fg[f].run, FALSE), "timeout")]
  /\ orphans' = orphans \cup InFlight(FgOwner(f), fg[f].run)
  /\ ret' = NoRet
  /\ UNCHANGED <<server, detail, max_history, direct, prun, jobs, dict, queue, started, running_count, worker, run, clock,
                 shut, store>>

\* call_tool returns the text of the command to the client.
FgReturn(f) ==
  /\ fg[f].state = "done"
  /\ fg' = [fg EXCEPT ![f] = [state |-> "idle", run |-> NoRun, outcome |-> "none"]]
  /\ ret' = NoRet
  /\ UNCHANGED <<server, detail, max_history, direct, prun, jobs, dict, queue, started,
                 running_count, worker, run, clock, shut, orphans, store>>

JobTypes == {"index_codebase", "other"}

Next ==
  \/ \E t \in JobTypes, ok \in BOOLEAN : (t = "other" => ok) /\ SubmitJob(t, ok)
  \/ \E id \in JobIds : CancelJob(id)
  \/ ShutdownBegin
  \/ ShutdownEnd
  \/ WorkerWake
  \/ WorkerResume(JobMaxFiles, FuncCounts)
  \/ OrphanDone

Spec == Init /\ [][Next]_vars

\* ------------------------------------- the manager with any history limit
\* BackgroundJobManager(max_history=h) for every h from 0 to MaxHistory.
HistInit ==
  /\ max_history \in 0..MaxHistory
  /\ jobs = <<>>
  /\ dict = {}
  /\ queue = <<>>
  /\ started = FALSE
  /\ running_count = 0
  /\ worker = [pc |-> "none", job |-> 0, cancel |-> FALSE]
  /\ run = NoRun
  /\ clock = 1
  /\ shut = [pc |-> "idle", calls |-> 0]
  /\ fg = [f \in FgIds |-> [state |-> "idle", run |-> NoRun, outcome |-> "none"]]
  /\ orphans = {}
  /\ store = 0
  /\ ret = NoRet
  /\ prun = NoRun
  /\ plog = NoLog
  /\ srun = NoRun
  /\ coll = <<>>
  /\ dbret = NoRet
  /\ indexed_project_path = NoProject
  /\ scan = NoScan
  /\ emb = NoEmbed
  /\ persist_path = None
  /\ stores = NoStores

SpecHist == HistInit /\ [][Next]_vars

\* --------------------------------------- the background index command
\* An active job looked for among the running jobs only.
get_active_index_job_running(js, d) ==
  LET active == {j \in d : js[j].job_type = "index_codebase"
                            /\ js[j].status = "running"}
  IN IF active = {} THEN 0
     ELSE CHOOSE j \in active : \A k \in active : j <= k

\* get_active_index_job: the first job of _jobs, in insertion order, that is an
\* index_codebase job and not terminal; 0 for None.
get_active_index_job(js, d) ==
  LET active == {j \in d : js[j].job_type = "index_codebase"
                            /\ ~is_terminal(js[j])}
  IN IF active = {} THEN 0
     ELSE CHOOSE j \in active : \A k \in active : j <= k

\* _index_background(path): with an active index job it returns the "already in
\* progress" text, else it submits an index_codebase job.  get_active_indexing
\* and submit_index_job do not suspend, so the command is one stretch.
IndexBackground(path_ok) ==
  LET active == get_active_index_job(jobs, dict) IN
  /\ IF active # 0
       THEN /\ ret' = [op |-> "index_background", active |-> active,
                       submitted |-> 0]
            /\ UNCHANGED <<jobs, dict, queue, worker, started>>
       ELSE /\ Submitted("index_codebase", path_ok)
            /\ ret' = [op |-> "index_background", active |-> 0,
                       submitted |-> Len(jobs) + 1]
  /\ UNCHANGED <<server, detail, max_history, direct, prun, running_count, run, clock, shut, fg,
                 orphans, store>>

\* Index jobs are submitted by the command only; jobs of other types directly.
CmdNext ==
  \/ \E ok \in BOOLEAN : IndexBackground(ok)
  \/ SubmitJob("other", TRUE)
  \/ \E id \in JobIds : CancelJob(id)
  \/ ShutdownBegin
  \/ ShutdownEnd
  \/ WorkerWake
  \/ WorkerResume(JobMaxFiles, FuncCounts)
  \/ OrphanDone

SpecCmd == Init /\ [][CmdNext]_vars

\* --------------------------------------- the foreground index command
\* The server taking index_codebase commands with background=False, one at a
\* time or overlapping, and no background job.
FgNext ==
  \/ \E f \in FgIds, path \in Paths, target_ok \in BOOLEAN : FgStart(f, path, target_ok)
  \/ \E f \in FgIds : FgResume(f, JobMaxFiles, FuncCounts)
  \/ \E f \in FgIds : FgTimeout(f)
  \/ \E f \in FgIds : FgReturn(f)
  \/ OrphanDone

SpecFg == Init /\ [][FgNext]_vars


\* ------------------------------------------- one pipeline run, on its own
\* index_codebase_async(path, progress_callback=sink) called directly: the sink
\* takes every snapshot, and the caller may cancel the run's task at any await.
\* A parsed file holds no entity, one, or a full embedding batch of them.
PipeCounts == {0, 1, EMBED_BATCH_SIZE}

Awaiting(r) == r.pc \in OffloadOps \cup YieldPcs

PipeInit ==
  /\ max_history = MaxHistory
  /\ jobs = <<>>
  /\ dict = {}
  /\ queue = <<>>
  /\ started = FALSE
  /\ running_count = 0
  /\ worker = [pc |-> "none", job |-> 0, cancel |-> FALSE]
  /\ run = NoRun
  /\ clock = 1
  /\ shut = [pc |-> "idle", calls |-> 0]
  /\ fg = [f \in FgIds |-> [state |-> "idle", run |-> NoRun, outcome |-> "none"]]
  /\ orphans = {}
  /\ store \in {0, 1}
  /\ ret = NoRet
  /\ prun \in {PipeStart(0, TRUE, ok) : ok \in BOOLEAN} \cup {NoRun}
  /\ plog = NoLog
  /\ srun = NoRun
  /\ coll = <<>>
  /\ dbret = NoRet
  /\ indexed_project_path = NoProject
  /\ scan = NoScan
  /\ emb = NoEmbed
  /\ persist_path = None
  /\ stores = NoStores

\* The log after the call at pc ended with `out`.
Logged(log, pc, out) ==
  IF pc = "scan"
    THEN [log EXCEPT !.walked = out.walked, !.nfiles = out.n,
                     !.failed = IF out.k = "fail" THEN pc ELSE @]
  ELSE IF out.k = "fail"
    THEN IF pc = "parse" THEN [log EXCEPT !.pfail = TRUE]
         ELSE [log EXCEPT !.failed = pc]
  ELSE log

PipeStep ==
  /\ Awaiting(prun)
  /\ \E out \in Outcomes(prun.pc, MaxFiles, PipeCounts) :
       /\ prun' = PipeResume(prun, out, FALSE)
       /\ plog' = Logged(plog, prun.pc, out)
       /\ store' = IF prun.pc \in OffloadOps
                     THEN StoreAfter(store, prun.pc, out, prun.found) ELSE store
  /\ UNCHANGED <<server, detail, max_history, jobs, dict, queue, started, running_count, worker, run, clock,
                 shut, fg, orphans, ret, srun, coll, dbret>>

\* The caller cancels the task of the run: CancelledError reaches the caller.
PipeCancelled ==
  /\ Awaiting(prun)
  /\ prun' = PipeCancel(prun, FALSE)
  /\ plog' = [plog EXCEPT !.caller = "CancelledError"]
  /\ orphans' = orphans \cup InFlight(0, prun)
  /\ UNCHANGED <<server, detail, max_history, jobs, dict, queue, started, running_count, worker, run, clock,
                 shut, fg, store, ret, srun, coll, dbret>>

\* index_codebase_async(..., timeout=t) and t elapses: wait_for cancels the task
\* of _do_index, CancelledError is raised at its await and handled as any
\* cancellation, and wait_for raises TimeoutError to the caller.
PipeTimeout ==
  /\ Awaiting(prun)
  /\ prun' = PipeCancel(prun, FALSE)
  /\ plog' = [plog EXCEPT !.caller = "TimeoutError"]
  /\ orphans' = orphans \cup InFlight(0, prun)
  /\ UNCHANGED <<server, detail, max_history, jobs, dict, queue, started, running_count, worker, run, clock,
                 shut, fg, store, ret, srun, coll, dbret>>

PipeOrphanDone ==
  /\ OrphanDone

\* ------------------------------------------------ the synchronous pipeline
MaxSyncFiles == 2       \* files index_codebase finds in the directory

\* What extract_functions does with one file: -1 when it raises, else the number
\* of entities it returns.
SyncParses ==
  UNION {[1..k -> {-1, 0, 1}] : k \in 0..MaxSyncFiles}

\* The calls of index_codebase that may raise; "none" when none does.
SyncCalls == {"none", "init_db", "clear", "embed", "add", "relate"}

RECURSIVE SyncFound(_)
SyncFound(parses) ==
  IF parses = <<>> THEN 0
  ELSE (IF Head(parses) > 0 THEN Head(parses) ELSE 0) + SyncFound(Tail(parses))

RECURSIVE SyncProcessed(_)
SyncProcessed(parses) ==
  IF parses = <<>> THEN 0
  ELSE (IF Head(parses) >= 0 THEN 1 ELSE 0) + SyncProcessed(Tail(parses))

SyncRet(result, path_ok, parses, processed, indexed, failed, st) ==
  [pc |-> "ret", result |-> result, path_ok |-> path_ok, nfiles |-> Len(parses),
   found |-> SyncFound(parses), pfail |-> \E k \in DOMAIN parses : parses[k] < 0,
   processed |-> processed, indexed |-> indexed, failed |-> failed, store |-> st]

\* index_codebase(path) on a collection of st entities, `bad` being the call that
\* raises when it is reached.  init_db, clear_collection, compute_called_by are
\* called outside any try: their exception leaves index_codebase ("raised").
index_codebase(st, path_ok, parses, bad) ==
  LET found == SyncFound(parses)
      processed == SyncProcessed(parses)
  IN IF ~path_ok THEN SyncRet("error", FALSE, <<>>, 0, 0, "none", st)
     ELSE IF bad = "init_db" THEN SyncRet("raised", TRUE, <<>>, 0, 0, bad, st)
     ELSE IF bad = "clear" THEN SyncRet("raised", TRUE, <<>>, 0, 0, bad, st)
     ELSE IF found = 0 THEN SyncRet("success", TRUE, parses, processed, 0, "none", 0)
     ELSE IF bad = "embed" THEN SyncRet("error", TRUE, parses, processed, 0, bad, 0)
     ELSE IF bad = "add" THEN SyncRet("error", TRUE, parses, processed, 0, bad, 0)
     ELSE IF bad = "relate"
       THEN SyncRet("raised", TRUE, parses, processed, 0, bad, found)
     ELSE SyncRet("success", TRUE, parses, processed, found, "none", found)

\* The caller runs index_codebase, once or again.
SyncIndex ==
  /\ prun = NoRun
  /\ \E ok \in BOOLEAN, parses \in SyncParses, bad \in SyncCalls :
       LET r == index_codebase(store, ok, parses, bad) IN
       /\ srun' = r
       /\ store' = r.store
  /\ UNCHANGED <<server, detail, max_history, jobs, dict, queue, started, running_count, worker, run, clock,
                 shut, fg, orphans, ret, prun, plog, coll, dbret>>

PipeNext == PipeStep \/ PipeCancelled \/ PipeTimeout \/ PipeOrphanDone \/ SyncIndex

SpecPipe == PipeInit /\ [][PipeNext]_vars


\* ------------------------------------------------- the walk of a scan
\* _scan_files_async followed directory by directory: _scan_sync runs in a pool
\* thread while the run that awaits it may be cancelled.
MaxTreeFiles == 2       \* files with a supported or unsupported name in the tree

SKIP_DIRS == {"node_modules", ".git", "__pycache__", ".venv", "venv", ".env",
              "dist", "build", ".washedmcp"}

\* The directories under the root that is indexed (directory 1), by parent;
\* link: the directory is a symbolic link to a directory.
DirTree ==
  <<[name |-> ".", parent |-> 0, link |-> FALSE],
    [name |-> "src", parent |-> 1, link |-> FALSE],
    [name |-> "node_modules", parent |-> 1, link |-> FALSE],
    [name |-> "lnk", parent |-> 1, link |-> TRUE],
    [name |-> "build", parent |-> 2, link |-> FALSE],
    [name |-> "pkg", parent |-> 3, link |-> FALSE],
    [name |-> "sub", parent |-> 4, link |-> FALSE]>>

DirIds == 1..Len(DirTree)

\* What a file is: "ok" a source file; "noext" one whose extension no parser
\* supports; "big" one over the size limit; "sensitive" one whose name matches a
\* pattern of SENSITIVE_FILE_PATTERNS; "outside" a symbolic link to a file outside
\* the root.
FileKinds == {"ok", "noext", "big", "sensitive", "outside"}

\* The files of a tree, in the order os.walk lists them in their directory.
Trees ==
  UNION {[1..k -> [dir : DirIds, kind : FileKinds]] : k \in 0..MaxTreeFiles}

\* is_safe_to_index without validate_file_size.
is_safe_to_index_any_size(file) ==
  /\ file.kind # "outside"
  /\ file.kind # "sensitive"

\* is_safe_to_index(filepath, path, max_file_size_mb): validate_path (the real
\* path lies in the root), validate_file_size, the sensitive patterns.
is_safe_to_index(file) ==
  /\ file.kind # "outside"
  /\ file.kind # "big"
  /\ file.kind # "sensitive"

\* The sub-directories of d in the order os.walk lists them.
SubDirs(d) == SelectSeq([i \in DirIds |-> i], LAMBDA i : DirTree[i].parent = d)

\* dirs[:] after the two filters of _scan_sync
KeptDirs(d) ==
  SelectSeq(SelectSeq(SubDirs(d), LAMBDA i : DirTree[i].name \notin SKIP_DIRS),
            LAMBDA i : ~DirTree[i].link)

\* The files of directory d that _scan_sync appends to its result.
ScanFiles(tree, d) ==
  SelectSeq(tree, LAMBDA file : /\ file.dir = d
                                /\ file.kind # "noext"
                                /\ is_safe_to_index(file))

\* The pool thread enters `for root, dirs, files in os.walk(path)` with the next
\* directory.  asyncio.current_task() raises RuntimeError in a thread that runs
\* no event loop; the walks in which the check passes are kept too.  After the
\* last directory _scan_sync returns its list.
ScanVisit ==
  /\ scan.pc = "walking"
  /\ \E raises \in BOOLEAN :
       LET d == Head(scan.todo)
           todo == KeptDirs(d) \o Tail(scan.todo)
       IN scan' = IF raises
                    THEN [scan EXCEPT !.pc = "raised", !.visited = Append(@, d)]
                    ELSE [scan EXCEPT !.pc = IF todo = <<>> THEN "returned" ELSE @,
                                      !.visited = Append(@, d),
                                      !.todo = todo,
                                      !.result = @ \o ScanFiles(scan.tree, d)]
  /\ UNCHANGED <<server, emb, persist_path, stores, jobstate, prun, direct>>

\* The thread has ended: the run, if it still awaits the scan, resumes with the
\* list or the exception; the future of a cancelled run is dropped.
ScanDone ==
  /\ scan.pc \in {"raised", "returned"}
  /\ scan' = [scan EXCEPT !.pc = "joined"]
  /\ LET out == [k |-> IF scan.pc = "raised" THEN "fail" ELSE "files",
                 n |-> Len(scan.result), walked |-> Len(scan.visited)]
     IN IF prun.pc = "scan"
          THEN /\ prun' = PipeResume(prun, out, FALSE)
               /\ plog' = Logged(plog, "scan", out)
          ELSE UNCHANGED <<prun, plog>>
  /\ UNCHANGED <<server, emb, persist_path, stores, jobstate, srun, coll, dbret>>

\* index_codebase_async(path, progress_callback=sink) on a directory with any
\* tree: the run awaits the scan, the thread is about to list the root.
ScanInit ==
  /\ JobsIdle
  /\ prun = PipeStart(0, TRUE, TRUE)
  /\ plog = NoLog
  /\ srun = NoRun
  /\ coll = <<>>
  /\ dbret = NoRet
  /\ indexed_project_path = NoProject
  /\ \E tree \in Trees :
       scan = [pc |-> "walking", tree |-> tree, todo |-> <<1>>, visited |-> <<>>,
               result |-> <<>>]
  /\ emb = NoEmbed
  /\ persist_path = None
  /\ stores = NoStores

\* The caller cancels the run, or its timeout elapses, while it awaits the scan.
ScanNext ==
  \/ ScanVisit
  \/ ScanDone
  \/ prun.pc = "scan" /\ PipeCancelled
  \/ prun.pc = "scan" /\ PipeTimeout

SpecScan == ScanInit /\ [][ScanNext]_vars


\* ------------------------------------------------ the embedding phase
\* _embed_functions_async(functions, progress, None, batch_size) followed call
\* by call.  emb.functions are the entities in list order, each with its code
\* (entity k has code k) and its embedding, None before it is assigned;
\* emb.calls are the lists of codes given to embed_batch, in order.
MaxEntities == 5        \* entities handed to the embedding phase
MaxBatchSize == 3       \* batch_size

\* embed_batch(codes): one vector for each snippet, in order.  A vector is
\* modelled by the call that returned it, its position in the returned list and
\* the snippet it encodes.
embed_batch(codes, call) ==
  [p \in 1..Len(codes) |-> [call |-> call, pos |-> p, code |-> codes[p]]]

\* Every call given the whole list.
SliceWhole(functions, i, batch_end) == functions

\* functions[i:batch_end]
Slice(functions, i, batch_end) == SubSeq(functions, i + 1, batch_end)

\* One turn of `for i in range(0, total_functions, batch_size)` up to its await,
\* or the return after the last turn.
EmbedTurn(e) ==
  LET total_functions == Len(e.functions)
      batch_end == Min(e.i + e.batch_size, total_functions)
      batch == Slice(e.functions, e.i, batch_end)
      codes == [p \in 1..Len(batch) |-> batch[p].code]
  IN IF e.i < total_functions
       THEN [e EXCEPT !.pc = "embed_batch",
                      !.progress = EmbedProgress(batch_end, total_functions),
                      !.calls = Append(@, codes)]
       ELSE [e EXCEPT !.pc = "done"]

\* for func, embedding in zip(batch, embeddings): func["embedding"] = embedding
Zipped(functions, i, embeddings) ==
  [k \in 1..Len(functions) |->
     IF k > i /\ k - i <= Len(embeddings)
       THEN [functions[k] EXCEPT !.embedding = embeddings[k - i]]
       ELSE functions[k]]

\* embed_batch returns to the phase, or raises.
EmbedResume ==
  /\ emb.pc = "embed_batch"
  /\ \E ok \in BOOLEAN :
       emb' = IF ok
                THEN [emb EXCEPT
                        !.pc = "sleep",
                        !.functions =
                          Zipped(@, emb.i,
                                 embed_batch(emb.calls[Len(emb.calls)], Len(emb.calls)))]
                ELSE [emb EXCEPT !.pc = "raised"]
  /\ UNCHANGED <<server, scan, persist_path, stores, jobstate, prun, direct>>

\* await asyncio.sleep(0) returns: the next turn of the loop.
EmbedWake ==
  /\ emb.pc = "sleep"
  /\ emb' = EmbedTurn([emb EXCEPT !.i = @ + emb.batch_size])
  /\ UNCHANGED <<server, scan, persist_path, stores, jobstate, prun, direct>>

\* The task that runs the phase is cancelled at one of its awaits.
EmbedCancel ==
  /\ emb.pc \in {"embed_batch", "sleep"}
  /\ emb' = [emb EXCEPT !.pc = "cancelled"]
  /\ UNCHANGED <<server, scan, persist_path, stores, jobstate, prun, direct>>

\* The phase called on any list of entities with any batch size, up to its
\* first await.
EmbedInit ==
  /\ JobsIdle
  /\ prun = NoRun
  /\ plog = NoLog
  /\ srun = NoRun
  /\ coll = <<>>
  /\ dbret = NoRet
  /\ indexed_project_path = NoProject
  /\ scan = NoScan
  /\ \E n \in 0..MaxEntities, batch_size \in (1..MaxBatchSize) \cup {EMBED_BATCH_SIZE} :
       emb = EmbedTurn([pc |-> "go", batch_size |-> batch_size, i |-> 0,
                        functions |-> [k \in 1..n |-> [code |-> k, embedding |-> None]],
                        progress |-> Frac(3, 10), calls |-> <<>>])
  /\ persist_path = None
  /\ stores = NoStores

EmbedNext == EmbedResume \/ EmbedWake \/ EmbedCancel

SpecEmbed == EmbedInit /\ [][EmbedNext]_vars


\* ------------------------------------------------- the stores of a process
\* database.py keeps one client and one collection for the process: init_db(p)
\* makes the collection of store p the current one, and clear_collection,
\* add_functions and compute_called_by work on the current one.
Targets == {1, 2}       \* the persist paths in use
RunTarget == 1          \* the persist_path of the pipeline run

\* The run resumes from its await.  init_db(persist_path) makes the run's store
\* current; the other store calls act on the store that is current when the call
\* executes.
TgtStep ==
  /\ Awaiting(prun)
  /\ \E out \in Outcomes(prun.pc, JobMaxFiles, FuncCounts) :
       /\ prun' = PipeResume(prun, out, FALSE)
       /\ plog' = Logged(plog, prun.pc, out)
       /\ persist_path' = IF prun.pc = "init_db" /\ out.k = "ok"
                            THEN RunTarget ELSE persist_path
       /\ stores' = IF prun.pc \in StoreOps
                      THEN [stores EXCEPT ![persist_path] =
                              StoreAfter(@, prun.pc, out, prun.found)]
                      ELSE stores
  /\ UNCHANGED <<server, scan, emb, jobstate, srun, coll, dbret>>

\* search_code(query, persist_path=p) or is_indexed(persist_path=p): init_db(p),
\* then reads of the collection.
InitOther(p) ==
  /\ persist_path' = p
  /\ UNCHANGED <<server, scan, emb, stores, jobstate, prun, direct>>

\* A process with two stores, filled or empty, either of them or none current,
\* and a run of index_codebase_async(path, persist_path=RunTarget) started.
TgtInit ==
  /\ JobsIdle
  /\ prun = PipeStart(0, TRUE, TRUE)
  /\ plog = NoLog
  /\ srun = NoRun
  /\ coll = <<>>
  /\ dbret = NoRet
  /\ indexed_project_path = NoProject
  /\ scan = NoScan
  /\ emb = NoEmbed
  /\ persist_path \in {None} \cup Targets
  /\ stores \in [Targets -> {0, 1}]

TgtNext ==
  \/ TgtStep
  \/ \E p \in Targets : InitOther(p)

SpecTgt == TgtInit /\ [][TgtNext]_vars


\* --------------------------------------------------------- the database
\* database.py on one collection.  An entity of `coll` is
\*   [id, document, metadata], metadata holding name, file_path, line_start and
\*   the JSON texts calls and called_by.
\* collection.get() is taken to list the entities in the order of their first
\* insertion, whatever was updated since, and sha256 to be free of collisions.
MaxBatch == 2           \* entities in one add_functions call
MaxDepth == 2           \* depth of a get_function_context call

\* A function dict as the parser hands it over.
Func(file_path, name, line_start, code, calls) ==
  [file_path |-> file_path, name |-> name, line_start |-> line_start,
   code |-> code, calls |-> calls]

\* The function dicts add_functions is called with: a calls b, b calls c and a,
\* c in another file calls nothing, a second a further down the file of the first
\* calls c twice and an unknown x, and a later version of b calls nothing.
Funcs ==
  {Func("f", "a", 1, "a1", <<"b">>),
   Func("f", "b", 2, "b1", <<"c", "a">>),
   Func("g", "c", 3, "c1", <<>>),
   Func("f", "a", 4, "a2", <<"c", "c", "x">>),
   Func("f", "b", 2, "b2", <<>>)}

QueryNames == {"a", "b", "c", "x"}

Batches == UNION {[1..k -> Funcs] : k \in 0..MaxBatch}

\* json.dumps(list) and json.loads(text): a JSON text is kept as the list it
\* denotes; "[]" denotes the empty list.
json_dumps(l) == [json |-> l]
json_loads(t) == t.json

\* An id from the body of the function as well.
FuncIdWithCode(func) ==
  func.file_path \o ":" \o func.name \o ":" \o ToString(func.line_start)
    \o ":" \o func.code

\* add_functions: sha256(f"{file_path}:{name}:{line_start}").hexdigest()[:32]
FuncId(func) ==
  func.file_path \o ":" \o func.name \o ":" \o ToString(func.line_start)

\* add_functions: the entity built from a function dict
Entity(func) ==
  [id |-> FuncId(func), document |-> func.code,
   metadata |-> [name |-> func.name, file_path |-> func.file_path,
                 line_start |-> func.line_start,
                 calls |-> IF func.calls # <<>> THEN json_dumps(func.calls)
                           ELSE json_dumps(<<>>),
                 called_by |-> json_dumps(<<>>)]]

Ids(c) == {c[k].id : k \in 1..Len(c)}

\* collection.upsert of one entity: an entity with that id is replaced where it
\* stands, a new one is listed last.
Upsert(c, e) ==
  IF e.id \in Ids(c)
    THEN [k \in 1..Len(c) |-> IF c[k].id = e.id THEN e ELSE c[k]]
    ELSE Append(c, e)

\* add_functions: the loop over the function dicts, a dict whose id was seen
\* earlier in the same call being skipped, then the upsert of what is left.
RECURSIVE add_functions_from(_, _, _)
add_functions_from(c, functions, seen_ids) ==
  IF functions = <<>> THEN c
  ELSE LET e == Entity(Head(functions)) IN
       IF e.id \in seen_ids
         THEN add_functions_from(c, Tail(functions), seen_ids)
         ELSE add_functions_from(Upsert(c, e), Tail(functions),
                                 seen_ids \cup {e.id})

add_functions(c, functions) == add_functions_from(c, functions, {})

\* compute_called_by, first pass: called_by_map[callee_name], the names of the
\* callers in the order the entities and their calls lists are gone through.
RECURSIVE CallersIn(_, _)
CallersIn(calls, callee_name) ==
  IF calls = <<>> THEN 0
  ELSE (IF Head(calls) = callee_name THEN 1 ELSE 0) + CallersIn(Tail(calls), callee_name)

RECURSIVE Repeat(_, _)
Repeat(x, n) == IF n = 0 THEN <<>> ELSE <<x>> \o Repeat(x, n - 1)

\* Only the first call of each entity recorded.
RECURSIVE called_by_map_first_call(_, _)
called_by_map_first_call(c, callee_name) ==
  IF c = <<>> THEN <<>>
  ELSE LET calls == json_loads(Head(c).metadata.calls) IN
       (IF calls # <<>> /\ Head(calls) = callee_name
          THEN <<Head(c).metadata.name>> ELSE <<>>)
         \o called_by_map_first_call(Tail(c), callee_name)

RECURSIVE called_by_map(_, _)
called_by_map(c, callee_name) ==
  IF c = <<>> THEN <<>>
  ELSE Repeat(Head(c).metadata.name,
              CallersIn(json_loads(Head(c).metadata.calls), callee_name))
         \o called_by_map(Tail(c), callee_name)

\* The callers appended to what the entity already lists.
UpdatedCalledByAppended(old, callers) ==
  json_dumps(json_loads(old) \o callers)

\* The entity written back with the called_by it had.
UpdatedCalledByKept(old, callers) == old

\* compute_called_by, second pass: updated_metadata["called_by"]
UpdatedCalledBy(old, callers) == json_dumps(callers)

\* compute_called_by with its first `done` collection.update calls carried out:
\* all of them when done = Len(c), else the next one raised.
compute_called_by(c, done) ==
  [k \in 1..Len(c) |->
     IF k <= done
       THEN [c[k] EXCEPT !.metadata.called_by =
               UpdatedCalledBy(@, called_by_map(c, c[k].metadata.name))]
       ELSE c[k]]

\* The lookup without its where-filter: the first entity of a collection that is
\* not empty.
FirstByNameUnfiltered(c, func_name) == IF Len(c) = 0 THEN 0 ELSE 1

\* _get_function_by_name: the first entity the collection lists under the name,
\* 0 when there is none.
FirstByName(c, func_name) ==
  IF \E k \in 1..Len(c) : c[k].metadata.name = func_name
    THEN CHOOSE k \in 1..Len(c) :
           /\ c[k].metadata.name = func_name
           /\ \A j \in 1..(k - 1) : c[j].metadata.name # func_name
    ELSE 0

\* get_function_context starting with nothing visited.
VisitedAtStartNone(func_name) == {}

\* get_function_context: visited_callees = {func_name}
VisitedAtStart(func_name) == {func_name}

\* get_function_context: one turn of `for current_depth in range(depth)` over the
\* names to process, w being [visited, out, next].
RECURSIVE ProcessNames(_, _, _, _, _)
ProcessNames(c, field, names, deeper, w) ==
  IF names = <<>> THEN w
  ELSE LET name == Head(names)
           k == FirstByName(c, name)
           w1 == IF name \in w.visited THEN w
                 ELSE IF k = 0 THEN [w EXCEPT !.visited = @ \cup {name}]
                 ELSE [visited |-> w.visited \cup {name},
                       out |-> Append(w.out, k),
                       next |-> IF deeper
                                  THEN w.next \o json_loads(c[k].metadata[field])
                                  ELSE w.next]
       IN ProcessNames(c, field, Tail(names), deeper, w1)

\* Each hop's entities replacing those of the hops before it.
RECURSIVE ExpandLastHop(_, _, _, _, _, _, _)
ExpandLastHop(c, field, names, visited, out, current_depth, depth) ==
  IF current_depth >= depth THEN out
  ELSE LET w == ProcessNames(c, field, names, current_depth < depth - 1,
                             [visited |-> visited, out |-> <<>>, next |-> <<>>])
       IN ExpandLastHop(c, field, w.next, w.visited, w.out, current_depth + 1,
                        depth)

RECURSIVE Expand(_, _, _, _, _, _, _)
Expand(c, field, names, visited, out, current_depth, depth) ==
  IF current_depth >= depth THEN out
  ELSE LET w == ProcessNames(c, field, names, current_depth < depth - 1,
                             [visited |-> visited, out |-> out, next |-> <<>>])
       IN Expand(c, field, w.next, w.visited, w.out, current_depth + 1, depth)

\* get_file_functions(file_path): the entities collection.get lists under
\* where={"file_path": file_path}, each given by its place in the collection.
get_file_functions(c, file_path) ==
  SelectSeq([k \in 1..Len(c) |-> k],
            LAMBDA k : c[k].metadata.file_path = file_path)

\* get_function_context: result["same_file"]
same_file(c, func_name, file_path) ==
  SelectSeq(get_file_functions(c, file_path),
            LAMBDA k : c[k].metadata.name # func_name)

\* get_function_context(func_name, depth): the entities of function, callees,
\* callers and same_file, each given by its place in the collection; function is
\* 0 for None.
get_function_context(c, func_name, depth) ==
  LET k == FirstByName(c, func_name) IN
  IF k = 0
    THEN [function |-> 0, callees |-> <<>>, callers |-> <<>>, same_file |-> <<>>]
  ELSE [function |-> k,
        callees |-> Expand(c, "calls", json_loads(c[k].metadata.calls),
                           VisitedAtStart(func_name), <<>>, 0, depth),
        callers |-> Expand(c, "called_by", json_loads(c[k].metadata.called_by),
                           VisitedAtStart(func_name), <<>>, 0, depth),
        same_file |-> same_file(c, func_name, c[k].metadata.file_path)]

DbInit ==
  /\ max_history = MaxHistory
  /\ jobs = <<>>
  /\ dict = {}
  /\ queue = <<>>
  /\ started = FALSE
  /\ running_count = 0
  /\ worker = [pc |-> "none", job |-> 0, cancel |-> FALSE]
  /\ run = NoRun
  /\ clock = 1
  /\ shut = [pc |-> "idle", calls |-> 0]
  /\ fg = [f \in FgIds |-> [state |-> "idle", run |-> NoRun, outcome |-> "none"]]
  /\ orphans = {}
  /\ store = 0
  /\ ret = NoRet
  /\ prun = NoRun
  /\ plog = NoLog
  /\ srun = NoRun
  /\ coll = <<>>
  /\ dbret = NoRet
  /\ indexed_project_path = NoProject
  /\ scan = NoScan
  /\ emb = NoEmbed
  /\ persist_path = None
  /\ stores = NoStores

manager == <<server, detail, max_history, jobs, dict, queue, started, running_count, worker, run, clock, shut,
             fg, orphans, store, ret, prun, plog, srun>>

AddFunctions ==
  /\ \E functions \in Batches : coll' = add_functions(coll, functions)
  /\ dbret' = [op |-> "add_functions"]
  /\ UNCHANGED manager

ClearCollection ==
  /\ coll' = <<>>
  /\ dbret' = [op |-> "clear_collection"]
  /\ UNCHANGED manager

\* compute_called_by runs to its end, or one of its calls on the collection
\* raises: count() or get() before any update, or an update.
ComputeCalledBy ==
  /\ \E done \in 0..Len(coll), ok \in BOOLEAN :
       /\ ok => done = Len(coll)
       /\ (~ok /\ Len(coll) > 0) => done < Len(coll)
       /\ coll' = compute_called_by(coll, done)
       /\ dbret' = [op |-> "compute_called_by", ok |-> ok,
                     again |-> dbret.op = "compute_called_by" /\ dbret.ok]
  /\ UNCHANGED manager

GetFunctionContext ==
  /\ \E func_name \in QueryNames, depth \in 0..MaxDepth :
       dbret' = [op |-> "get_function_context", func_name |-> func_name,
                 depth |-> depth,
                 val |-> get_function_context(coll, func_name, depth)]
  /\ UNCHANGED <<manager, coll>>

DbNext ==
  \/ AddFunctions
  \/ ClearCollection
  \/ ComputeCalledBy
  \/ GetFunctionContext

SpecDb == DbInit /\ [][DbNext]_vars


\* ------------------------------------------------------------------ claims
Range(q) == {q[k] : k \in 1..Len(q)}
Created == 1..Len(jobs)

AllowedMoves ==
  {<<"pending", "running">>, <<"pending", "cancelled">>,
   <<"running", "complete">>, <<"running", "error">>, <<"running", "cancelled">>}

\* C1: whatever submit_job, cancel_job, the worker and shutdown do, a job starts
\* pending and every change of its status is one of pending -> running,
\* pending -> cancelled, running -> complete | error | cancelled; so a terminal
\* status never changes.
C1_StatusMoves ==
  \A j \in Created :
    LET t == jobs[j].trail IN
    /\ t[1] = "pending"
    /\ t[Len(t)] = jobs[j].status
    /\ \A k \in 1..(Len(t) - 1) : <<t[k], t[k + 1]>> \in AllowedMoves

\* A job that ran, was cancelled while running, and has been finished by the worker.
C1_Witness ==
  \E j \in Created :
    /\ jobs[j].trail = <<"pending", "running", "cancelled">>
    /\ worker.job # j
    /\ \E k \in Created : jobs[k].trail = <<"pending", "running", "complete">>

\* C2: cancel_job returns False only for an id that is unknown or whose job is
\* terminal, so for a pending or running job it returns True; and once it has
\* returned True for a job, the job's status reads cancelled whenever
\* get_job_status still finds it, whatever the worker and the job's pipeline do
\* afterwards.
C2_CancelSticks ==
  /\ \A j \in Created :
       jobs[j].cancelled => get_job_status(jobs, dict, j) \in {"cancelled", "None"}
  /\ (ret.op = "cancel_job" /\ ret.val) => jobs[ret.id].cancelled
  /\ (ret.op = "cancel_job" /\ ~ret.val)
       => (ret.id \notin dict \/ is_terminal(jobs[ret.id]))

\* A job cancelled while its pipeline was running, since finished by the worker
\* and still found by get_job_status.
C2_Witness ==
  \E j \in dict :
    /\ jobs[j].cancelled
    /\ jobs[j].task
    /\ worker.job # j
    /\ get_job_status(jobs, dict, j) = "cancelled"

\* The owners of the store-mutating offloaded calls in flight.
StoreCallsInFlight ==
  {o.owner : o \in {x \in orphans : x.op \in StoreOps}}
    \cup (IF worker.pc = "job" /\ run.pc \in StoreOps THEN {worker.job} ELSE {})
    \cup {FgOwner(f) : f \in {g \in FgIds : fg[g].state = "running"
                                            /\ fg[g].run.pc \in StoreOps}}

Running(js) == {j \in 1..Len(js) : js[j].status = "running"}

\* C4: at most one job has status running, and the worker takes the next job id
\* off the queue only when the job it was executing has reached a terminal status.
C4_Serial ==
  [][/\ Cardinality(Running(jobs')) <= 1
     /\ (worker.pc = "job" /\ Len(queue') < Len(queue))
          => is_terminal(jobs'[worker.job])
     /\ worker'.pc = "job" => Running(jobs') \subseteq {worker'.job}]_vars

\* A job that ran to its end, and a later job running.
C4_Witness ==
  \E j \in Created, k \in Created :
    /\ j < k
    /\ jobs[j].task /\ is_terminal(jobs[j])
    /\ jobs[k].status = "running"
    /\ worker.job = k

\* C5: once the job the worker is executing is cancelled, the worker's next step
\* ends that job with status cancelled: its pipeline issues no further offloaded
\* call (it does not suspend again) and the collection is left as it is.
C5_CancelStops ==
  [][(worker.pc = "job" /\ jobs[worker.job].cancelled)
       => \/ worker'.job = worker.job /\ run' = run
          \/ /\ worker'.job # worker.job
             /\ jobs'[worker.job].status = "cancelled"
             /\ store' = store]_vars

\* A job cancelled while its add_functions call was in flight, finished as
\* cancelled with that call still running.
C5_Witness ==
  \E j \in Created :
    /\ jobs[j].cancelled /\ jobs[j].task
    /\ jobs[j].status = "cancelled"
    /\ worker.job # j
    /\ \E o \in orphans : o.owner = j /\ o.op = "add"

TerminalPhases == {"complete", "error", "cancelled"}

\* C6: over the snapshots one run hands to its progress sink, progress stays in
\* [0, 1] and never decreases, and it is exactly 1 in the snapshot whose phase is
\* complete.
C6_Progress ==
  prun.pc # "none" =>
    \A k \in 1..Len(prun.snaps) :
      LET p == prun.snaps[k].progress IN
      /\ p[1] >= 0 /\ p[2] > 0
      /\ FracLeq(p, Frac(1, 1))
      /\ k > 1 => FracLeq(prun.snaps[k - 1].progress, p)
      /\ prun.snaps[k].phase = "complete" => FracIsOne(p)

\* A run over at least ten files and two embedding batches that completed.
C6_Witness ==
  /\ prun.pc = "ret" /\ prun.result = "success"
  /\ prun.n >= PARSE_BATCH_SIZE
  /\ prun.found > EMBED_BATCH_SIZE
  /\ prun.snaps[Len(prun.snaps)].phase = "complete"

\* A run that finished early, no entity having been found.
C6_WitnessEarly ==
  /\ prun.pc = "ret" /\ prun.result = "success"
  /\ prun.n > 0 /\ prun.found = 0
  /\ FracIsOne(prun.snaps[Len(prun.snaps)].progress)

PhaseRank(ph) ==
  CASE ph = "scanning" -> 1
    [] ph = "parsing" -> 2
    [] ph = "embedding" -> 3
    [] ph = "storing" -> 4
    [] ph = "computing_relations" -> 5
    [] OTHER -> 6

\* C7: the phases of one run's snapshots never go back in the order scanning,
\* parsing, embedding, storing, computing_relations, complete; a snapshot with
\* phase complete, error or cancelled is the last one, and the run has returned.
C7_Phases ==
  prun.pc # "none" =>
    LET s == prun.snaps IN
    /\ \A k \in 1..(Len(s) - 1) :
         /\ s[k].phase \notin TerminalPhases
         /\ PhaseRank(s[k].phase) <= PhaseRank(s[k + 1].phase)
    /\ (Len(s) > 0 /\ s[Len(s)].phase \in TerminalPhases) => prun.pc = "ret"
    /\ prun.pc = "ret" /\ prun.ncalls > 0 => s[Len(s)].phase \in TerminalPhases

\* A run cancelled in the store phase: the cancelled snapshot follows storing.
C7_Witness ==
  /\ prun.pc = "ret"
  /\ Len(prun.snaps) >= 2
  /\ prun.snaps[Len(prun.snaps)].phase = "cancelled"
  /\ prun.snaps[Len(prun.snaps) - 1].phase = "storing"

\* C8: a job that fails (unknown job type, or a pipeline that returns error) gets
\* status error with a message in its error field, and the worker loop goes on:
\* in the same step it works through the queue up to the next job it can run,
\* the stop sentinel, or the end of the queue.  A job of unknown type, or one
\* whose path the pipeline rejects, has status error once it was executed.
C8_ErrorContained ==
  [][/\ \A j \in 1..Len(jobs') :
         (/\ jobs'[j].job_type = "other" \/ ~jobs'[j].path_ok
          /\ Len(jobs'[j].trail) >= 2 /\ jobs'[j].trail[2] = "running")
           => jobs'[j].status = "error" /\ jobs'[j].error # "none"
     /\ \A j \in Created :
       (jobs[j].status # "error" /\ jobs'[j].status = "error")
         => /\ jobs'[j].error \in {"unknown_type", "pipeline"}
            /\ jobs'[j].completed_at > 0
            /\ worker'.pc \in {"get", "job", "done"}
            /\ worker'.pc = "get" => queue' = <<>>
            /\ worker'.pc = "done" => None \in Range(queue)
            /\ worker'.pc = "job" => worker'.job > j /\ worker'.job \in Range(queue)
    ]_vars

\* A job of unknown type ended in error and the job behind it ran to completion.
C8_Witness ==
  \E j \in Created, k \in Created :
    /\ j < k
    /\ jobs[j].status = "error" /\ jobs[j].error = "unknown_type"
    /\ jobs[k].status = "complete"

\* C9: submit_job can be taken whatever the earlier jobs are doing, and in the
\* state it leaves the new job is found by get_job_status with status pending.
C9_SubmitVisible ==
  [][/\ Len(jobs) < MaxJobs => ENABLED SubmitJob("index_codebase", TRUE)
     /\ Len(jobs') = Len(jobs) + 1
          => get_job_status(jobs', dict', Len(jobs')) = "pending"]_vars

\* A job submitted while an earlier job is running: pending at once.
C9_Witness ==
  \E j \in Created :
    /\ jobs[j].status = "running"
    /\ Len(jobs) > j
    /\ get_job_status(jobs, dict, Len(jobs)) = "pending"
    /\ Len(jobs) \in Range(queue)

\* C10: cancel_job on an id that is not in _jobs or whose job is terminal returns
\* False and changes nothing: no job, not the queue, not the worker task.
C10_CancelNoop ==
  [][(ret'.op = "cancel_job"
       /\ (ret'.id \notin dict \/ is_terminal(jobs[ret'.id])))
       => /\ ret'.val = FALSE
          /\ UNCHANGED <<server, detail, max_history, jobs, dict, queue, started, running_count, worker, run,
                         clock, shut, fg, orphans, store, prun>>]_vars

\* cancel_job returned False for a terminal job while the worker runs another.
C10_Witness ==
  /\ ret.op = "cancel_job" /\ ~ret.val
  /\ ret.id \in dict /\ is_terminal(jobs[ret.id])
  /\ worker.pc = "job"

\* What the progress sink of the direct run was told.
Told(field, value) ==
  \E k \in 1..Len(prun.snaps) : prun.snaps[k][field] = value

\* C11: a run stopped by its timeout is not reported as cancelled, neither to
\* its caller nor to its progress sink, and a cancelled run is not reported as
\* timed out.
C11_TimeoutDistinct ==
  prun.pc = "ret" =>
    /\ plog.caller = "TimeoutError"
         => ~Told("phase", "cancelled") /\ ~Told("status", "cancelled")
    /\ plog.caller = "CancelledError"
         => ~Told("phase", "timeout") /\ ~Told("status", "timeout")

\* C12: after a run that returned success the collection holds the entities of
\* that run and no other.
C12_StoreIsLastRun ==
  /\ (prun.pc = "ret" /\ prun.result = "success") => store = prun.found
  /\ (srun.pc = "ret" /\ srun.result = "success") => store = srun.found

FatalCalls == {"embed", "add", "relate"}

\* C13: when embedding, the store write or the relation rebuild fails, the run
\* returns status error with functions_indexed = 0, the sink's last snapshot has
\* phase error, and no call follows the failed one.
C13_FatalFailures ==
  /\ (prun.pc # "none" /\ plog.failed \in FatalCalls)
       => /\ prun.pc = "ret" /\ prun.result = "error" /\ prun.indexed = 0
          /\ prun.snaps[Len(prun.snaps)].phase = "error"
  /\ (srun.pc = "ret" /\ srun.failed \in FatalCalls)
       => srun.result = "error" /\ srun.indexed = 0

\* C14: a run in which extract_functions raised for some file, no other call
\* failed and nobody stopped the run, returns success, has gone through every
\* scanned file, and has indexed the entities of the files that parsed.
C14_ParseFailureAbsorbed ==
  /\ (prun.pc = "ret" /\ plog.pfail /\ plog.failed = "none" /\ plog.caller = "none")
       => /\ prun.result = "success"
          /\ prun.i = prun.n /\ prun.processed = prun.n
          /\ prun.indexed = prun.found
          /\ prun.found > 0 => store = prun.found
  /\ (prun.pc # "none" /\ plog.pfail /\ prun.pc # "ret") => prun.exc = "none"
  /\ (srun.pc = "ret" /\ srun.pfail /\ srun.failed = "none")
       => /\ srun.result = "success"
          /\ srun.indexed = srun.found /\ store = srun.found

\* A run over several files, one of which failed to parse while another held an
\* entity: success, and the entity is in the collection.
C14_Witness ==
  /\ prun.pc = "ret" /\ plog.pfail /\ plog.failed = "none"
  /\ prun.result = "success"
  /\ prun.n >= 2 /\ prun.found >= 1 /\ store = prun.found

\* C15: indexing an existing directory that holds no file to index returns
\* success with files_processed = 0 and functions_indexed = 0.
C15_EmptyDirectory ==
  /\ (prun.pc = "ret" /\ plog.nfiles = 0 /\ plog.caller = "none")
       => prun.result = "success" /\ prun.processed = 0 /\ prun.indexed = 0
  /\ (srun.pc = "ret" /\ srun.path_ok /\ srun.nfiles = 0 /\ srun.failed = "none")
       => srun.result = "success" /\ srun.processed = 0 /\ srun.indexed = 0

SameKey(m1, m2) ==
  /\ m1.file_path = m2.file_path
  /\ m1.name = m2.name
  /\ m1.line_start = m2.line_start

\* C16: two function dicts with the same (file_path, name, line_start) get the
\* same id, and after any sequence of add_functions calls no two entities of the
\* collection have the same (file_path, name, line_start).
C16_OnePerKey ==
  /\ \A u \in Funcs, v \in Funcs : SameKey(u, v) => Entity(u).id = Entity(v).id
  /\ \A i \in 1..Len(coll), j \in 1..Len(coll) :
       SameKey(coll[i].metadata, coll[j].metadata) => i = j

\* add_functions has stored all four keys, b in its later version, at the place
\* where b was first inserted.
C16_Witness ==
  /\ dbret.op = "add_functions"
  /\ Len(coll) = 4
  /\ \E k \in 1..3 : coll[k].id = "f:b:2" /\ coll[k].document = "b2"

NameAt(k) == coll[k].metadata.name
CallsAt(k) == json_loads(coll[k].metadata.calls)
CalledByAt(k) == json_loads(coll[k].metadata.called_by)

\* C17: after compute_called_by has run to its end, a name n is in the called_by
\* list of an entity e exactly when some entity named n has e's name in its calls
\* list; an entity nobody calls has the empty list.
C17_CalledByInverse ==
  (dbret.op = "compute_called_by" /\ dbret.ok) =>
    \A k \in 1..Len(coll), n \in QueryNames :
      n \in Range(CalledByAt(k))
        <=> \E j \in 1..Len(coll) : NameAt(j) = n /\ NameAt(k) \in Range(CallsAt(j))

\* A rebuild over at least three entities that left one with two callers or more
\* and one with none.
C17_Witness ==
  /\ dbret.op = "compute_called_by" /\ dbret.ok
  /\ Len(coll) >= 3
  /\ \E k \in 1..Len(coll) : Len(CalledByAt(k)) >= 2
  /\ \E k \in 1..Len(coll) : CalledByAt(k) = <<>>

\* C18: a compute_called_by that runs to its end right after another that did
\* leaves the collection, and so every called_by list, exactly as it was.
C18_RebuildIdempotent ==
  [][(/\ dbret.op = "compute_called_by" /\ dbret.ok
      /\ dbret'.op = "compute_called_by" /\ dbret'.ok)
       => coll' = coll]_vars

\* Two rebuilds in a row over a collection with callers to record.
C18_Witness ==
  /\ dbret.op = "compute_called_by" /\ dbret.ok /\ dbret.again
  /\ Len(coll) >= 3
  /\ \E k \in 1..Len(coll) : Len(CalledByAt(k)) >= 2

\* C19: a compute_called_by that raises leaves every entity's called_by as it was
\* before the call.
C19_FailedRebuildKeeps ==
  [][(dbret'.op = "compute_called_by" /\ ~dbret'.ok)
       => /\ Len(coll') = Len(coll)
          /\ \A k \in 1..Len(coll) :
               coll'[k].metadata.called_by = coll[k].metadata.called_by]_vars

\* The names one edge away from the names in S, an edge leading from a stored name
\* to each name in the list `field` of its first entity.
EdgeStep(field, S) ==
  UNION {Range(json_loads(coll[FirstByName(coll, n)].metadata[field])) :
           n \in {m \in S : FirstByName(coll, m) # 0}}

RECURSIVE Within(_, _, _)
\* The names reachable from the names in S by 1 to d edges.
Within(field, S, d) ==
  IF d = 0 THEN {}
  ELSE EdgeStep(field, S) \cup Within(field, EdgeStep(field, S), d - 1)

Expected(field, root, d) ==
  {FirstByName(coll, n) : n \in Within(field, {root}, d) \ {root}} \ {0}

\* C20: for a stored root and depth d, callees are the first entities of the
\* stored names reachable from the root by 1 to d calls edges, callers those
\* reachable by 1 to d called_by edges, the root excepted, each listed once.
C20_ContextIsReach ==
  (dbret.op = "get_function_context" /\ dbret.val.function # 0) =>
    /\ Range(dbret.val.callees) = Expected("calls", dbret.func_name, dbret.depth)
    /\ Range(dbret.val.callers) = Expected("called_by", dbret.func_name, dbret.depth)
    /\ Cardinality(Range(dbret.val.callees)) = Len(dbret.val.callees)
    /\ Cardinality(Range(dbret.val.callers)) = Len(dbret.val.callers)
    /\ \A k \in Range(dbret.val.callees) \cup Range(dbret.val.callers) :
         NameAt(k) # dbret.func_name

\* The context of a at depth 2 where a calls b and b calls a and c: two callees,
\* and callers recorded by a rebuild.
C20_Witness ==
  /\ dbret.op = "get_function_context"
  /\ dbret.func_name = "a" /\ dbret.depth = 2
  /\ Len(dbret.val.callees) = 2
  /\ Len(dbret.val.callers) >= 1
  /\ \E k \in Range(dbret.val.callees) : "a" \in Range(CallsAt(k))

Stored(n) == \E k \in 1..Len(coll) : NameAt(k) = n

\* C21: for a stored name and a depth d, the callees and the callers that
\* get_function_context returns at depth d are among those it returns at depth
\* d + 1; at depth 1 every callee is named in the root's calls and every caller
\* in the root's called_by.
C21_DepthMonotone ==
  (dbret.op = "get_function_context" /\ dbret.val.function # 0) =>
    LET more == get_function_context(coll, dbret.func_name, dbret.depth + 1)
        root == dbret.val.function
    IN /\ Range(dbret.val.callees) \subseteq Range(more.callees)
       /\ Range(dbret.val.callers) \subseteq Range(more.callers)
       /\ dbret.depth = 1 =>
            /\ \A k \in Range(dbret.val.callees) : NameAt(k) \in Range(CallsAt(root))
            /\ \A k \in Range(dbret.val.callers) :
                 NameAt(k) \in Range(CalledByAt(root))

\* A context at depth 1 with a callee and a caller, to which one more hop adds a
\* callee.
C21_Witness ==
  /\ dbret.op = "get_function_context" /\ dbret.depth = 1
  /\ Len(dbret.val.callees) >= 1 /\ Len(dbret.val.callers) >= 1
  /\ Len(get_function_context(coll, dbret.func_name, 2).callees)
       > Len(dbret.val.callees)

\* C22: get_function_context(name, 0) on a stored name returns the matched
\* function with callees, callers and same_file all empty.
C22_DepthZeroEmpty ==
  (dbret.op = "get_function_context" /\ dbret.depth = 0 /\ Stored(dbret.func_name))
    => /\ dbret.val.function # 0
       /\ NameAt(dbret.val.function) = dbret.func_name
       /\ dbret.val.callees = <<>>
       /\ dbret.val.callers = <<>>
       /\ dbret.val.same_file = <<>>

\* C23: get_function_context on a name no entity of the collection has, the
\* empty collection included, returns function None and callees, callers and
\* same_file empty, at every depth.
C23_UnknownName ==
  (dbret.op = "get_function_context" /\ ~Stored(dbret.func_name))
    => dbret.val = [function |-> 0, callees |-> <<>>, callers |-> <<>>,
                    same_file |-> <<>>]

\* The context of a name that is called by a stored entity but is not stored.
C23_Witness ==
  /\ dbret.op = "get_function_context" /\ dbret.depth >= 1
  /\ ~Stored(dbret.func_name)
  /\ \E k \in 1..Len(coll) : dbret.func_name \in Range(CallsAt(k))
  /\ dbret.val.function = 0

\* C24: same_file lists exactly the entities of the collection, the matched
\* function excepted, whose file_path is the matched function's.
C24_SameFileExact ==
  (dbret.op = "get_function_context" /\ dbret.val.function # 0) =>
    Range(dbret.val.same_file) =
      {k \in 1..Len(coll) :
         /\ k # dbret.val.function
         /\ coll[k].metadata.file_path
              = coll[dbret.val.function].metadata.file_path}

\* The names of the entities a context lists under `field`.
Names(ctx, field) == {NameAt(k) : k \in Range(ctx[field])}

\* C25 as claimed: after compute_called_by has run to its end, for every entity
\* named X that has a stored name Y # X in its calls, the context of Y at depth 1
\* lists an entity named X among the callers and the context of X at depth 1
\* lists an entity named Y among the callees.
C25_EdgeBothWays ==
  (dbret.op = "compute_called_by" /\ dbret.ok) =>
    \A k \in 1..Len(coll), y \in QueryNames :
      (y \in Range(CallsAt(k)) /\ y # NameAt(k) /\ Stored(y))
        => /\ NameAt(k) \in Names(get_function_context(coll, y, 1), "callers")
           /\ y \in Names(get_function_context(coll, NameAt(k), 1), "callees")

\* C25, amended: the callers half as claimed; the callees half for the entity
\* that is the first one stored under the name X, whose calls the context of X
\* follows.
C25_EdgeBothWaysFirst ==
  (dbret.op = "compute_called_by" /\ dbret.ok) =>
    \A k \in 1..Len(coll), y \in QueryNames :
      (y \in Range(CallsAt(k)) /\ y # NameAt(k) /\ Stored(y))
        => /\ NameAt(k) \in Names(get_function_context(coll, y, 1), "callers")
           /\ (\A j \in 1..(k - 1) : NameAt(j) # NameAt(k))
                => y \in Names(get_function_context(coll, NameAt(k), 1), "callees")

\* After a rebuild, a calls b and b calls a and c, all stored.
C25_Witness ==
  /\ dbret.op = "compute_called_by" /\ dbret.ok
  /\ \E k \in 1..Len(coll) :
       /\ NameAt(k) = "b" /\ Range(CallsAt(k)) = {"c", "a"}
       /\ Stored("a") /\ Stored("c")
       /\ "b" \in Names(get_function_context(coll, "c", 1), "callers")
       /\ "c" \in Names(get_function_context(coll, "b", 1), "callees")

TerminalIn(js, d) == {j \in d : is_terminal(js[j])}

\* C26: in the state a step leaves in which a job reached a terminal status, by
\* completing, failing or being cancelled, the manager retains at most
\* max_history terminal jobs.
C26_HistoryBounded ==
  [][(\E j \in Created : ~is_terminal(jobs[j]) /\ is_terminal(jobs'[j]))
       => Cardinality(TerminalIn(jobs', dict')) <= max_history]_vars

\* The worker went through _execute_job's finally, and so _cleanup_history, in
\* this step: it left the job it was executing, or ran a pending job to its end.
CleanupRan ==
  \E j \in Created :
    \/ worker.pc = "job" /\ worker.job = j
         /\ ~(worker'.pc = "job" /\ worker'.job = j)
    \/ jobs[j].status = "pending" /\ is_terminal(jobs'[j])
         /\ Len(jobs'[j].trail) >= 2 /\ jobs'[j].trail[2] = "running"

\* C27: for every max_history >= 0, _cleanup_history leaves at most max_history
\* terminal jobs, exactly max_history when it dropped any; the jobs it drops are
\* terminal, and none of them completed after a terminal job it keeps.
C27_EvictsOldest ==
  [][CleanupRan =>
       LET kept == TerminalIn(jobs', dict')
           dropped == dict \ dict'
       IN /\ Cardinality(kept) <= max_history
          /\ dropped # {} => Cardinality(kept) = max_history
          /\ \A j \in dropped : is_terminal(jobs'[j])
          /\ \A a \in dropped, b \in kept :
               jobs'[a].completed_at <= jobs'[b].completed_at]_vars

\* shutdown() returns in this step: after its wait, or at once when the worker
\* task had ended before the call.
ShutdownReturns ==
  \/ shut.pc = "waiting" /\ shut'.pc = "idle"
  \/ shut'.calls > shut.calls /\ shut'.pc = "idle"

\* C28: shutdown() cancels every job that is pending or running when it is
\* called (a terminal status never changes afterwards); from the call to the
\* return no job enters running; and when it returns the worker loop has ended,
\* at the stop sentinel, and no job of _jobs is pending or running.
C28_ShutdownQuiesces ==
  [][/\ shut'.calls > shut.calls
          => \A j \in dict : ~is_terminal(jobs[j]) => jobs'[j].status = "cancelled"
     /\ (shut'.calls > shut.calls \/ shut.pc = "waiting")
          => \A j \in 1..Len(jobs') :
               jobs'[j].status = "running" => (j \in Created /\ jobs[j].status = "running")
     /\ ShutdownReturns
          => /\ worker'.pc = "done"
             /\ \A j \in dict' : jobs'[j].status \notin {"pending", "running"}]_vars

IndexJobsActive == {j \in dict : jobs[j].job_type = "index_codebase"
                                  /\ ~is_terminal(jobs[j])}

\* C29: with index jobs submitted by the background index command only, at most
\* one index_codebase job of _jobs is pending or running, get_active_index_job
\* returns that job when there is one and None when there is none, and a command
\* that found an active job submitted nothing.
C29_SingleActive ==
  /\ Cardinality(IndexJobsActive) <= 1
  /\ IndexJobsActive = {} <=> get_active_index_job(jobs, dict) = 0
  /\ IndexJobsActive # {} => get_active_index_job(jobs, dict) \in IndexJobsActive
  /\ \A j \in Created \ dict : jobs[j].job_type = "index_codebase" => is_terminal(jobs[j])
  /\ (ret.op = "index_background" /\ ret.active # 0)
       => ret.submitted = 0 /\ ret.active \in IndexJobsActive

\* The command refused: an index job is running, submitted after an earlier one
\* had ended.
C29_Witness ==
  /\ ret.op = "index_background" /\ ret.active = 2 /\ ret.submitted = 0
  /\ jobs[2].status = "running"
  /\ jobs[1].job_type = "index_codebase" /\ is_terminal(jobs[1])

Started(job) == job.start_no > 0

Rejected(f) ==
  fg[f].state = "idle" /\ fg'[f].state = "done" /\ fg'[f].outcome = "error"

\* C31: an index request rejected by validation returns the error result with
\* zero counts at once and changes nothing: no call on the store is issued or
\* left running, the collection is as it was, no snapshot is delivered, and
\* _indexed_project_path keeps its value.
C31_RejectedNoEffect ==
  [][\A f \in FgIds :
       Rejected(f)
         => /\ fg'[f].run # NoRun
                 => /\ fg'[f].run.result = "error"
                    /\ fg'[f].run.processed = 0 /\ fg'[f].run.indexed = 0
                    /\ fg'[f].run.ncalls = 0 /\ fg'[f].run.snaps = <<>>
            /\ store' = store /\ orphans' = orphans
            /\ indexed_project_path' = indexed_project_path]_vars

\* The caller of the direct run cancelled it, or its timeout elapsed, in this step.
Stopped == plog.caller = "none" /\ plog'.caller \in {"CancelledError", "TimeoutError"}

\* C32: when a run is cancelled or timed out while it awaits an offloaded call
\* on the store, the step leaves the collection alone and the call goes on in
\* its thread; the call ends only by completing, and then the collection holds
\* the whole effect of the call (or, had the call itself raised, what it held).
C32_InFlightCompletes ==
  [][/\ (Stopped /\ prun.pc \in SharedOps)
          => /\ store' = store
             /\ [owner |-> 0, op |-> prun.pc, n |-> prun.found] \in orphans'
     /\ \A o \in orphans \ orphans' :
          store' \in {StoreAfter(store, o.op, [k |-> "ok"], o.n), store}
     /\ orphans \subseteq orphans' \/ \E o \in orphans : orphans' = orphans \ {o}]_vars

\* The timeout elapsed while add_functions was executing (the sixth call of a run
\* over one file with one entity, after clear_collection had emptied the
\* collection), and the write was applied afterwards.
C32_Witness ==
  /\ plog.caller = "TimeoutError"
  /\ prun.pc = "ret" /\ prun.result = "cancelled"
  /\ prun.n = 1 /\ prun.found = 1 /\ prun.ncalls = 6
  /\ orphans = {}
  /\ store = 1

\* The run was cancelled (by its caller or by its timeout) and has reported it.
RunCancelled(r) == r.pc = "ret" /\ r.result = "cancelled"

RECURSIVE DirsAbove(_)
\* Directory d and the directories between it and the root.
DirsAbove(d) == IF d <= 1 THEN {} ELSE {d} \cup DirsAbove(DirTree[d].parent)

\* C34: every path in the list _scan_sync builds has a supported extension, has
\* no directory of SKIP_DIRS and no symbolic link to a directory between it and
\* the root, resolves to a file inside the root that is within the size limit
\* and whose name matches no sensitive pattern; and the parser is given that
\* list, of that length.
C34_ScanOutputSafe ==
  scan # NoScan
    => /\ \A k \in 1..Len(scan.result) :
            LET file == scan.result[k] IN
            /\ file.kind \notin {"noext", "outside", "big", "sensitive"}
            /\ \A d \in DirsAbove(file.dir) :
                 DirTree[d].name \notin SKIP_DIRS /\ ~DirTree[d].link
       /\ (scan.pc = "joined" /\ prun.pc = "parse") => prun.n = Len(scan.result)

\* The walk returned one file of a tree of two: the other one was rejected or
\* lies in a directory that is not walked; the parser was given the one.
C34_Witness ==
  /\ scan # NoScan
  /\ scan.pc = "joined"
  /\ Len(scan.tree) = 2 /\ Len(scan.result) = 1
  /\ prun.pc = "parse" /\ prun.n = 1

\* ceil(n / b)
CeilDiv(n, b) == (n + b - 1) \div b

\* C35: when the embedding phase has returned for n > 0 entities and batch size
\* b, embed_batch was called ceil(n / b) times (fewer than n when n > 1 and
\* b > 1), call c with the codes of entities (c-1)b+1 .. min(cb, n) in list
\* order, and entity k holds the vector returned at its position in its batch.
C35_BatchedEmbedding ==
  (emb # NoEmbed /\ emb.pc = "done" /\ Len(emb.functions) > 0)
    => LET n == Len(emb.functions)
           b == emb.batch_size
       IN /\ Len(emb.calls) = CeilDiv(n, b)
          /\ (n > 1 /\ b > 1) => Len(emb.calls) < n
          /\ \A c \in 1..Len(emb.calls) :
               /\ Len(emb.calls[c]) = (IF c * b <= n THEN b ELSE n - (c - 1) * b)
               /\ \A p \in 1..Len(emb.calls[c]) :
                    emb.calls[c][p] = emb.functions[(c - 1) * b + p].code
          /\ \A k \in 1..n :
               emb.functions[k].embedding =
                 [call |-> ((k - 1) \div b) + 1, pos |-> ((k - 1) % b) + 1,
                  code |-> emb.functions[k].code]

\* Five entities in batches of two: three calls, the last with one snippet.
C35_Witness ==
  /\ emb # NoEmbed
  /\ emb.pc = "done"
  /\ Len(emb.functions) = 5 /\ emb.batch_size = 2
  /\ Len(emb.calls) = 3

WillDequeue(j) ==
  /\ worker.pc \in {"get", "job"}
  /\ \E k \in 1..Len(queue) :
       queue[k] = j /\ \A i \in 1..(k - 1) : queue[i] # None

\* C37: no accepted job is left where the scheduler alone cannot bring it to a
\* terminal status: a pending job is still to be taken from the queue by the
\* worker, and a running job is the one the worker is executing.  (A job that
\* violates this stays pending or running for good unless some caller cancels it.)
C37_NoJobStranded ==
  \A j \in dict :
    /\ jobs[j].status = "pending" => WillDequeue(j)
    /\ jobs[j].status = "running" => worker.pc = "job" /\ worker.job = j

\* The job was cancelled before the worker started it.
CancelledPending(job) == job.cancelled /\ job.start_no = 0

RECURSIVE FirstRunnable(_)
\* The first item of q that the worker does not skip: a job id, the stop
\* sentinel None, or -1 when every id of q is skipped.
FirstRunnable(q) ==
  IF q = <<>> THEN -1
  ELSE IF Head(q) = None THEN None
  ELSE IF Head(q) \in dict /\ ~jobs[Head(q)].cancelled THEN Head(q)
  ELSE FirstRunnable(Tail(q))

\* C38: a job cancelled while pending is never executed: no step changes its
\* record (it never enters running), the worker never takes it up, no pipeline
\* run is started or advanced for it and no store call is left in flight for it;
\* and when the worker takes its id from the queue, the record evicted from
\* _jobs or not, the worker goes on in the same step to the next item it does
\* not skip: it starts that job, or ends at the stop sentinel, or waits on the
\* empty queue.
C38_CancelledPendingSkipped ==
  [][/\ jobs' # jobs
          => \A j \in Created : CancelledPending(jobs[j]) => jobs'[j] = jobs[j]
     /\ (worker'.pc = "job" /\ worker' # worker)
          => ~CancelledPending(jobs[worker'.job])
     /\ (run' # NoRun /\ run' # run) => ~CancelledPending(jobs[run'.owner])
     /\ \A o \in orphans' \ orphans : ~CancelledPending(jobs[o.owner])
     /\ (/\ worker.pc = "get" /\ queue # <<>> /\ Head(queue) # None
         /\ Head(queue) \notin Range(queue')
         /\ CancelledPending(jobs[Head(queue)]))
          => LET k == FirstRunnable(Tail(queue)) IN
             /\ k > 0 => jobs[k].start_no = 0 /\ jobs'[k].start_no > 0
             /\ k = None => worker'.pc = "done"
             /\ k = -1 => worker'.pc = "get" /\ queue' = <<>>]_vars

\* With no shutdown so far (the queue was never replaced), a job cancelled while
\* pending has been evicted from _jobs and its id has been taken from the queue.
C38_Witness ==
  /\ shut.calls = 0
  /\ \E j \in Created \ dict :
       /\ CancelledPending(jobs[j])
       /\ jobs[j].trail = <<"pending", "cancelled">>
       /\ j \notin Range(queue)

\* The awaits of the scanning, parsing and embedding phases.
EarlyPcs == {"scan", "parse", "parse_yield", "embed", "embed_yield"}

\* C39: a run that fails or is cancelled before its store write begins leaves
\* the collection as it was: no step taken while index_codebase_async is in its
\* scanning, parsing or embedding phase changes the collection, whether the run
\* goes on, fails or is cancelled there; and a call of index_codebase that ends
\* in an error before it writes entities leaves the collection as it found it.
C39_EarlyFailureKeepsStore ==
  [][/\ (prun # NoRun /\ prun.pc \in EarlyPcs) => store' = store
     /\ (srun' # srun /\ srun'.result \in {"error", "raised"}
           /\ srun'.failed \notin {"add", "relate"})
          => store' = store]_vars

\* C40: after a run that returned success, functions_indexed is the number of
\* entities in the collection, for index_codebase_async and for index_codebase.
C40_CountIsStore ==
  /\ (prun # NoRun /\ prun.pc = "ret" /\ prun.result = "success")
       => prun.indexed = store
  /\ (srun # NoRun /\ srun.result = "success") => srun.indexed = store

=============================================================================
